---- MODULE Spec2Model ----
(***************************************************************************)
(* A model of the VNS solver for the capacitated vehicle routing problem:  *)
(* the cost model (src/src/utils.py), the neighbourhood operators          *)
(* (src/src/neighborhoods.py), the shaking operators (src/src/shaking.py), *)
(* VND (src/src/vnd.py), the construction heuristics                       *)
(* (src/src/construction.py) and the search loop (src/src/vns.py).         *)
(*                                                                         *)
(* Numbers.  Coordinates, distances and costs are exact multiples of one   *)
(* length unit of 1e-7; the program's thresholds 0.001 and 1e-6 are, in    *)
(* that unit, 10000 and 10.  Customers lie on one line through the depot   *)
(* (their second coordinate is 0), so that math.hypot is the absolute      *)
(* difference and every distance is exact.                                 *)
(*                                                                         *)
(* Lists.  A Python list is a sequence; At, Slice, Insert, Pop and SetAt   *)
(* take Python's 0-based indices.  A random choice is a set of outcomes.   *)
(***************************************************************************)
EXTENDS Integers, Sequences, FiniteSets, TLC

VARIABLES
    demands,          \* demands[c], c in 0..n-1, demands[0] = 0
    capacity,         \* vehicle capacity
    dist,             \* dist[a][b], the distance matrix
    pc,               \* the position of the program
    op,               \* the operator or construction method last applied
    solution,         \* the solution handed to an operator
    result,           \* what the operator returned
    k,                \* shaking strength
    routes,           \* construction: the routes built so far
    unvisited,        \* construction: customers not yet routed
    best,             \* VNS_solver: best solution
    best_cost,        \* VNS_solver: its cached cost
    iteration,        \* VNS_solver: passes of the search loop
    last_improvement, \* VNS_solver: iteration of the last acceptance
    tabu_skips,       \* VNS_solver: number of tabu-skipped passes
    tabu_list,        \* VNS_solver: fingerprints, oldest first
    max_iter,         \* VNS_solver: the iteration limit
    use_or_opt,       \* VNS_solver: whether VND includes N6
    last,             \* VNS_solver: a record of the last pass of the loop
    heap              \* the list objects of a call, where aliasing is followed

vars == <<demands, capacity, dist, pc, op, solution, result, k, routes,
          unvisited, best, best_cost, iteration, last_improvement,
          tabu_skips, tabu_list, max_iter, use_or_opt, last, heap>>

(***************************************************************************)
(* Program constants (config.py), thresholds in units of 1e-7.             *)
(***************************************************************************)
IMPROVEMENT_THRESHOLD == 10000
EPS == 10
K_MAX == 5
TABU_TENURE_MIN == 10
TABU_TENURE_MAX == 20
PATIENCE_MIN == 300
PATIENCE_MAX == 300
MIN_ITER_FLOOR == 50

(***************************************************************************)
(* Python lists                                                            *)
(***************************************************************************)
At(s, i) == s[i + 1]
Slice(s, a, b) == SubSeq(s, a + 1, b)
Rev(s) == [i \in 1..Len(s) |-> s[Len(s) + 1 - i]]
Insert(s, pos, x) == Slice(s, 0, pos) \o <<x>> \o Slice(s, pos, Len(s))
Pop(s, idx) == Slice(s, 0, idx) \o Slice(s, idx + 1, Len(s))
SetAt(s, idx, x) == [s EXCEPT ![idx + 1] = x]
Interior(r) == Slice(r, 1, Len(r) - 1)
Min2(a, b) == IF a < b THEN a ELSE b
Max2(a, b) == IF a > b THEN a ELSE b
Abs(x) == IF x < 0 THEN -x ELSE x

RECURSIVE SumSeq(_)
SumSeq(s) == IF s = <<>> THEN 0 ELSE Head(s) + SumSeq(Tail(s))

RECURSIVE LexLess(_, _)
LexLess(a, b) ==
    IF a = <<>> \/ b = <<>> THEN FALSE
    ELSE IF Head(a) # Head(b) THEN Head(a) < Head(b)
    ELSE LexLess(Tail(a), Tail(b))

\* The first move of a scan: the least in the order of the nested loops.
First(S) == CHOOSE m \in S : \A o \in S : o = m \/ LexLess(m, o)

\* a slip of the length test: a route of one customer is dropped too
DropEmpty_off_by_one(sol) == SelectSeq(sol, LAMBDA r : Len(r) > 3)

\* a slip of the filter: the routes left without customers are kept
DropEmpty_keeps_all(sol) == sol

\* [r for r in sol if len(r) > 2]
DropEmpty(sol) == SelectSeq(sol, LAMBDA r : Len(r) > 2)

(***************************************************************************)
(* Cost model                                                              *)
(***************************************************************************)
euclidean(a, b) == Abs(a - b)

compute_distance_matrix(coords) ==
    [i \in 0..Len(coords) - 1 |->
        [j \in 0..Len(coords) - 1 |-> euclidean(At(coords, i), At(coords, j))]]

route_cost(route, d) ==
    SumSeq([i \in 1..Len(route) - 1 |-> d[route[i]][route[i + 1]]])

solution_cost(sol, d) == SumSeq([i \in 1..Len(sol) |-> route_cost(sol[i], d)])

route_demand(route, dem) ==
    SumSeq([i \in 1..Len(route) |-> IF route[i] # 0 THEN dem[route[i]] ELSE 0])

(***************************************************************************)
(* Neighbourhood operators.  A best-of-pass scan keeps the first move, in  *)
(* the order of its nested loops, among those of least delta below         *)
(* -IMPROVEMENT_THRESHOLD (the comparison "delta < best_delta" is strict). *)
(***************************************************************************)
Improving(C, delta(_)) == {m \in C : delta(m) < -IMPROVEMENT_THRESHOLD}

BestOfPass(C, delta(_)) ==
    LET I == Improving(C, delta)
        least == CHOOSE v \in {delta(m) : m \in I} :
                     \A w \in {delta(m) : m \in I} : v <= w
    IN  IF I = {} THEN <<>> ELSE First({m \in I : delta(m) = least})

\* N1: 2-opt within each route, first improvement.
N1_delta(route, i, j, d) ==
    d[At(route, i - 1)][At(route, j)] + d[At(route, i)][At(route, j + 1)]
    - d[At(route, i - 1)][At(route, i)] - d[At(route, j)][At(route, j + 1)]

N1_scan(sol, d) ==
    UNION {{<<r, i, j>> : i \in 1..Len(At(sol, r)) - 3,
                          j \in 2..Len(At(sol, r)) - 2}
           : r \in {x \in 0..Len(sol) - 1 : Len(At(sol, x)) > 3}}

N1_improving(sol, d) ==
    {m \in N1_scan(sol, d) :
        /\ m[3] >= m[2] + 1
        /\ N1_delta(At(sol, m[1]), m[2], m[3], d) < -IMPROVEMENT_THRESHOLD}

N1_reverse(route, i, j) ==
    Slice(route, 0, i) \o Rev(Slice(route, i, j + 1)) \o Slice(route, j + 1, Len(route))

RECURSIVE N1_two_opt_intra(_, _)
N1_two_opt_intra(sol, d) ==
    LET I == N1_improving(sol, d)
        m == First(I)
    IN  IF I = {} THEN sol
        ELSE N1_two_opt_intra(
                 SetAt(sol, m[1], N1_reverse(At(sol, m[1]), m[2], m[3])), d)

\* N2: relocate one customer into another route, best of pass.
N2_fits(sol, r2, customer, dem, cap) ==
    route_demand(At(sol, r2), dem) + dem[customer] <= cap

N2_scan(sol, dem, cap) ==
    UNION {UNION {UNION {{<<r1, c, r2, pos>> : pos \in 1..Len(At(sol, r2)) - 1}
                         : r2 \in {x \in 0..Len(sol) - 1 :
                                      /\ x # r1
                                      /\ N2_fits(sol, x, At(At(sol, r1), c), dem, cap)}}
                  : c \in 1..Len(At(sol, r1)) - 2}
           : r1 \in {x \in 0..Len(sol) - 1 : Len(At(sol, x)) > 2}}

\* a slip of the delta: the cost of taking the customer out is left out
N2_delta_insert_only(sol, m, d) ==
    d[At(At(sol, m[3]), m[4] - 1)][At(At(sol, m[1]), m[2])]
    + d[At(At(sol, m[1]), m[2])][At(At(sol, m[3]), m[4])]
    - d[At(At(sol, m[3]), m[4] - 1)][At(At(sol, m[3]), m[4])]

N2_delta(sol, m, d) ==
    LET r1 == At(sol, m[1])
        r2 == At(sol, m[3])
        customer == At(r1, m[2])
        removal_delta == d[At(r1, m[2] - 1)][At(r1, m[2] + 1)]
                         - d[At(r1, m[2] - 1)][customer]
                         - d[customer][At(r1, m[2] + 1)]
        insert_delta == d[At(r2, m[4] - 1)][customer] + d[customer][At(r2, m[4])]
                        - d[At(r2, m[4] - 1)][At(r2, m[4])]
    IN  removal_delta + insert_delta

N2_apply(sol, m) ==
    LET customer == At(At(sol, m[1]), m[2])
        popped == SetAt(sol, m[1], Pop(At(sol, m[1]), m[2]))
    IN  DropEmpty(SetAt(popped, m[3], Insert(At(popped, m[3]), m[4], customer)))

RECURSIVE N2_relocate_inter(_, _, _, _)
N2_relocate_inter(sol, dem, cap, d) ==
    LET best_move == BestOfPass(N2_scan(sol, dem, cap), LAMBDA m : N2_delta(sol, m, d))
    IN  IF best_move = <<>> THEN sol
        ELSE N2_relocate_inter(N2_apply(sol, best_move), dem, cap, d)

\* N3: swap two customers of two routes, best of pass.
N3_fits(sol, m, dem, cap) ==
    LET c1 == At(At(sol, m[1]), m[2])
        c2 == At(At(sol, m[3]), m[4])
        load1 == route_demand(At(sol, m[1]), dem) - dem[c1] + dem[c2]
        load2 == route_demand(At(sol, m[3]), dem) - dem[c2] + dem[c1]
    IN  ~(load1 > cap \/ load2 > cap)

N3_scan(sol, dem, cap) ==
    {m \in UNION {UNION {UNION {{<<r1, c1, r2, c2>> : c2 \in 1..Len(At(sol, r2)) - 2}
                                : r2 \in {x \in r1 + 1..Len(sol) - 1 : Len(At(sol, x)) > 2}}
                         : c1 \in 1..Len(At(sol, r1)) - 2}
                  : r1 \in {x \in 0..Len(sol) - 1 : Len(At(sol, x)) > 2}}
        : N3_fits(sol, m, dem, cap)}

N3_delta(sol, m, d) ==
    LET r1 == At(sol, m[1])
        r2 == At(sol, m[3])
        c1 == At(r1, m[2])
        c2 == At(r2, m[4])
    IN  d[At(r1, m[2] - 1)][c2] + d[c2][At(r1, m[2] + 1)]
        + d[At(r2, m[4] - 1)][c1] + d[c1][At(r2, m[4] + 1)]
        - d[At(r1, m[2] - 1)][c1] - d[c1][At(r1, m[2] + 1)]
        - d[At(r2, m[4] - 1)][c2] - d[c2][At(r2, m[4] + 1)]

N3_apply(sol, m) ==
    LET c1 == At(At(sol, m[1]), m[2])
        c2 == At(At(sol, m[3]), m[4])
        one == SetAt(sol, m[1], SetAt(At(sol, m[1]), m[2], c2))
    IN  SetAt(one, m[3], SetAt(At(one, m[3]), m[4], c1))

RECURSIVE N3_swap_inter(_, _, _, _)
N3_swap_inter(sol, dem, cap, d) ==
    LET best_move == BestOfPass(N3_scan(sol, dem, cap), LAMBDA m : N3_delta(sol, m, d))
    IN  IF best_move = <<>> THEN sol
        ELSE N3_swap_inter(N3_apply(sol, best_move), dem, cap, d)

\* N4: exchange the tails of two routes, first improvement.
N4_new_r1(sol, m) ==
    Slice(At(sol, m[1]), 0, m[3] + 1) \o Slice(At(sol, m[2]), m[4] + 1, Len(At(sol, m[2])))

N4_new_r2(sol, m) ==
    Slice(At(sol, m[2]), 0, m[4] + 1) \o Slice(At(sol, m[1]), m[3] + 1, Len(At(sol, m[1])))

N4_fits(sol, m, dem, cap) ==
    /\ route_demand(N4_new_r1(sol, m), dem) <= cap
    /\ route_demand(N4_new_r2(sol, m), dem) <= cap

N4_scan(sol) ==
    UNION {UNION {{<<r1, r2, i, j>> : i \in 1..Len(At(sol, r1)) - 2,
                                      j \in 1..Len(At(sol, r2)) - 2}
                  : r2 \in {x \in r1 + 1..Len(sol) - 1 : Len(At(sol, x)) > 2}}
           : r1 \in {x \in 0..Len(sol) - 1 : Len(At(sol, x)) > 2}}

N4_improving(sol, dem, cap, d) ==
    {m \in N4_scan(sol) :
        /\ N4_fits(sol, m, dem, cap)
        /\ route_cost(N4_new_r1(sol, m), d) + route_cost(N4_new_r2(sol, m), d)
             < route_cost(At(sol, m[1]), d) + route_cost(At(sol, m[2]), d)
               - IMPROVEMENT_THRESHOLD}

N4_apply(sol, m) ==
    SetAt(SetAt(sol, m[1], N4_new_r1(sol, m)), m[2], N4_new_r2(sol, m))

RECURSIVE N4_two_opt_inter(_, _, _, _)
N4_two_opt_inter(sol, dem, cap, d) ==
    LET I == N4_improving(sol, dem, cap, d)
    IN  IF I = {} THEN sol
        ELSE N4_two_opt_inter(N4_apply(sol, First(I)), dem, cap, d)

\* N5: merge two routes, best of pass over the four concatenations.
N5_configs(ra, rb) ==
    << Slice(ra, 0, Len(ra) - 1) \o Slice(rb, 1, Len(rb)),
       Slice(rb, 0, Len(rb) - 1) \o Slice(ra, 1, Len(ra)),
       Slice(ra, 0, Len(ra) - 1) \o Rev(Interior(rb)) \o <<0>>,
       Slice(rb, 0, Len(rb) - 1) \o Rev(Interior(ra)) \o <<0>> >>

N5_merged(sol, m) == At(N5_configs(At(sol, m[1]), At(sol, m[2])), m[3])

\* a slip of the capacity test: a pair that fills the vehicle is left out
N5_fits_strict(sol, r1, r2, dem, cap) ==
    route_demand(At(sol, r1), dem) + route_demand(At(sol, r2), dem) < cap

N5_fits(sol, r1, r2, dem, cap) ==
    route_demand(At(sol, r1), dem) + route_demand(At(sol, r2), dem) <= cap

N5_scan(sol, dem, cap) ==
    UNION {UNION {{<<r1, r2, c>> : c \in 0..3}
                  : r2 \in {x \in r1 + 1..Len(sol) - 1 : N5_fits(sol, r1, x, dem, cap)}}
           : r1 \in 0..Len(sol) - 1}

N5_delta(sol, m, d) ==
    route_cost(N5_merged(sol, m), d)
    - (route_cost(At(sol, m[1]), d) + route_cost(At(sol, m[2]), d))

N5_apply(sol, m) == Append(Pop(Pop(sol, m[2]), m[1]), N5_merged(sol, m))

RECURSIVE N5_merge_routes(_, _, _, _)
N5_merge_routes(sol, dem, cap, d) ==
    LET best_merge == BestOfPass(N5_scan(sol, dem, cap), LAMBDA m : N5_delta(sol, m, d))
    IN  IF best_merge = <<>> THEN sol
        ELSE N5_merge_routes(N5_apply(sol, best_merge), dem, cap, d)

\* N6: Or-opt, relocate a chain of 1, 2 or 3 customers, best of pass.  A move
\* is <<chain_len, 0, r_idx, start, insert_pos, 0>> (intra) or
\* <<chain_len, 1, r1_idx, start, r2_idx, insert_pos>> (inter): for each
\* chain length the intra scan runs before the inter scan.
N6_chain(sol, m) == Slice(At(sol, m[3]), m[4], m[4] + m[1])

N6_chain_demand(sol, m, dem) ==
    SumSeq([i \in 1..m[1] |-> dem[At(At(sol, m[3]), m[4] + i - 1)]])

N6_fits(sol, m, dem, cap) ==
    route_demand(At(sol, m[5]), dem) + N6_chain_demand(sol, m, dem) <= cap

N6_scan_intra(sol, chain_len) ==
    {m \in UNION {{<<chain_len, 0, r, start, insert_pos, 0>> :
                       start \in 1..Len(At(sol, r)) - chain_len - 1,
                       insert_pos \in 1..Len(At(sol, r)) - 2}
                  : r \in {x \in 0..Len(sol) - 1 : Len(At(sol, x)) > chain_len + 2}}
        : ~(m[5] >= m[4] /\ m[5] <= m[4] + chain_len)}

N6_scan_inter(sol, chain_len, dem, cap) ==
    {m \in UNION {UNION {{<<chain_len, 1, r1, start, r2, insert_pos>> :
                              start \in 1..Len(At(sol, r1)) - chain_len - 1,
                              insert_pos \in 1..Len(At(sol, r2)) - 1}
                         : r2 \in (0..Len(sol) - 1) \ {r1}}
                  : r1 \in {x \in 0..Len(sol) - 1 : Len(At(sol, x)) > chain_len + 1}}
        : N6_fits(sol, m, dem, cap)}

N6_scan(sol, dem, cap) ==
    UNION {N6_scan_intra(sol, cl) \cup N6_scan_inter(sol, cl, dem, cap) : cl \in {1, 2, 3}}

N6_delta_intra(sol, m, d) ==
    LET route == At(sol, m[3])
        start == m[4]
        chain_len == m[1]
        insert_pos == m[5]
        old_cost == d[At(route, start - 1)][At(route, start)]
                    + d[At(route, start + chain_len - 1)][At(route, start + chain_len)]
                    + d[At(route, insert_pos - 1)][At(route, insert_pos)]
        new_cost == d[At(route, start - 1)][At(route, start + chain_len)]
                    + d[At(route, insert_pos - 1)][At(route, start)]
                    + d[At(route, start + chain_len - 1)][At(route, insert_pos)]
    IN  new_cost - old_cost

N6_delta_inter(sol, m, d) ==
    LET r1 == At(sol, m[3])
        r2 == At(sol, m[5])
        start == m[4]
        chain_len == m[1]
        insert_pos == m[6]
        inner == SumSeq([i \in 1..chain_len - 1 |->
                            d[At(r1, start + i - 1)][At(r1, start + i)]])
        removal_cost == d[At(r1, start - 1)][At(r1, start + chain_len)]
                        - d[At(r1, start - 1)][At(r1, start)]
                        - inner
                        - d[At(r1, start + chain_len - 1)][At(r1, start + chain_len)]
        insert_cost == d[At(r2, insert_pos - 1)][At(r1, start)]
                       + d[At(r1, start + chain_len - 1)][At(r2, insert_pos)]
                       - d[At(r2, insert_pos - 1)][At(r2, insert_pos)]
                       + inner
    IN  removal_cost + insert_cost

N6_delta(sol, m, d) ==
    IF m[2] = 0 THEN N6_delta_intra(sol, m, d) ELSE N6_delta_inter(sol, m, d)

InsertChain(route, pos, chain) ==
    Slice(route, 0, pos) \o chain \o Slice(route, pos, Len(route))

DelChain(route, start, chain_len) ==
    Slice(route, 0, start) \o Slice(route, start + chain_len, Len(route))

N6_apply(sol, m) ==
    LET chain == N6_chain(sol, m)
        cut == DelChain(At(sol, m[3]), m[4], m[1])
    IN  IF m[2] = 0
        THEN SetAt(sol, m[3],
                   InsertChain(cut, IF m[5] > m[4] THEN m[5] - m[1] ELSE m[5], chain))
        ELSE DropEmpty(SetAt(SetAt(sol, m[3], cut), m[5],
                             InsertChain(At(sol, m[5]), m[6], chain)))

RECURSIVE N6_or_opt(_, _, _, _)
N6_or_opt(sol, dem, cap, d) ==
    LET best_move == BestOfPass(N6_scan(sol, dem, cap), LAMBDA m : N6_delta(sol, m, d))
    IN  IF best_move = <<>> THEN sol
        ELSE N6_or_opt(N6_apply(sol, best_move), dem, cap, d)

(***************************************************************************)
(* Shaking operators.  Each is the set of the solutions its random choices *)
(* can produce.  A pass that breaks out of the loop leaves the solution as *)
(* it is, and so do all passes after it.                                   *)
(***************************************************************************)
ValidRoutes(sol, minlen) == {i \in 0..Len(sol) - 1 : Len(At(sol, i)) > minlen}

\* a slip of the capacity test: the moved customer's demand is left out
Shake_N1_fits_without_customer(sol, r2, customer, dem, cap) ==
    route_demand(At(sol, r2), dem) <= cap

Shake_N1_fits(sol, r2, customer, dem, cap) ==
    route_demand(At(sol, r2), dem) + dem[customer] <= cap

\* random.randint(0, len(sol) - 1): the destination route of a relocation
Shake_N1_destinations(sol, r1) == 0..Len(sol) - 1

\* a slip of the relocation: the customer is put in a route of its own
Shake_N1_move_opens_route(sol, r1, c, r2, pos) ==
    Append(SetAt(sol, r1, Pop(At(sol, r1), c)), <<0, At(At(sol, r1), c), 0>>)

Shake_N1_move(sol, r1, c, r2, pos) ==
    LET customer == At(At(sol, r1), c)
        popped == SetAt(sol, r1, Pop(At(sol, r1), c))
    IN  SetAt(popped, r2, Insert(At(popped, r2), pos, customer))

Shake_N1_attempt(sol, dem, cap) ==
    IF Len(sol) < 2 \/ ValidRoutes(sol, 2) = {} THEN {sol}
    ELSE UNION {UNION {UNION {
             IF Shake_N1_fits(sol, r2, At(At(sol, r1), c), dem, cap)
             THEN {Shake_N1_move(sol, r1, c, r2, pos) :
                      pos \in 1..(Len(At(sol, r2)) - (IF r2 = r1 THEN 1 ELSE 0)) - 1}
             ELSE {sol}
             : r2 \in Shake_N1_destinations(sol, r1)}
             : c \in 1..Len(At(sol, r1)) - 2}
             : r1 \in ValidRoutes(sol, 2)}

RECURSIVE Shake_N1_loop(_, _, _, _)
Shake_N1_loop(S, dem, cap, n) ==
    IF n = 0 THEN S
    ELSE Shake_N1_loop(UNION {Shake_N1_attempt(s, dem, cap) : s \in S}, dem, cap, n - 1)

Shake_N1_random_relocate(sol, dem, cap, kk) ==
    {DropEmpty(s) : s \in Shake_N1_loop({sol}, dem, cap, kk)}

Shake_N2_fits(sol, r1, c1, r2, c2, dem, cap) ==
    LET a == At(At(sol, r1), c1)
        b == At(At(sol, r2), c2)
        load1 == route_demand(At(sol, r1), dem) - dem[a] + dem[b]
        load2 == route_demand(At(sol, r2), dem) - dem[b] + dem[a]
    IN  load1 <= cap /\ load2 <= cap

Shake_N2_move(sol, r1, c1, r2, c2) ==
    LET a == At(At(sol, r1), c1)
        b == At(At(sol, r2), c2)
        one == SetAt(sol, r1, SetAt(At(sol, r1), c1, b))
    IN  SetAt(one, r2, SetAt(At(one, r2), c2, a))

Shake_N2_attempt(sol, dem, cap) ==
    IF Len(sol) < 2 \/ Cardinality(ValidRoutes(sol, 2)) < 2 THEN {sol}
    ELSE UNION {UNION {
             {IF Shake_N2_fits(sol, r1, c1, r2, c2, dem, cap)
              THEN Shake_N2_move(sol, r1, c1, r2, c2) ELSE sol
              : c1 \in 1..Len(At(sol, r1)) - 2, c2 \in 1..Len(At(sol, r2)) - 2}
             : r2 \in ValidRoutes(sol, 2) \ {r1}}
             : r1 \in ValidRoutes(sol, 2)}

RECURSIVE Shake_N2_loop(_, _, _, _)
Shake_N2_loop(S, dem, cap, n) ==
    IF n = 0 THEN S
    ELSE Shake_N2_loop(UNION {Shake_N2_attempt(s, dem, cap) : s \in S}, dem, cap, n - 1)

Shake_N2_random_swap(sol, dem, cap, kk) == Shake_N2_loop({sol}, dem, cap, kk)

Shake_N3_reverse(route, i, j) ==
    Slice(route, 0, i) \o Rev(Slice(route, i, j + 1)) \o Slice(route, j + 1, Len(route))

Shake_N3_attempt(sol) ==
    IF ValidRoutes(sol, 4) = {} THEN {sol}
    ELSE UNION {UNION {
             {SetAt(sol, r, Shake_N3_reverse(At(sol, r), i, j))
              : j \in i + 1..Len(At(sol, r)) - 2}
             : i \in 1..Len(At(sol, r)) - 3}
             : r \in ValidRoutes(sol, 4)}

RECURSIVE Shake_N3_loop(_, _)
Shake_N3_loop(S, n) ==
    IF n = 0 THEN S
    ELSE Shake_N3_loop(UNION {Shake_N3_attempt(s) : s \in S}, n - 1)

Shake_N3_double_bridge(sol, dem, cap, kk) == Shake_N3_loop({sol}, kk)

(***************************************************************************)
(* VND                                                                     *)
(***************************************************************************)
VND_neighborhoods(or_opt) ==
    IF or_opt THEN <<"N1", "N5", "N2", "N3", "N4", "N6">>
    ELSE <<"N1", "N5", "N2", "N3", "N4">>

VND_call(name, sol, dem, cap, d) ==
    CASE name = "N1" -> N1_two_opt_intra(sol, d)
      [] name = "N5" -> N5_merge_routes(sol, dem, cap, d)
      [] name = "N2" -> N2_relocate_inter(sol, dem, cap, d)
      [] name = "N3" -> N3_swap_inter(sol, dem, cap, d)
      [] name = "N4" -> N4_two_opt_inter(sol, dem, cap, d)
      [] name = "N6" -> N6_or_opt(sol, dem, cap, d)

VND_accepts(old_cost, old_routes, new_cost, new_routes) ==
    LET cost_improved == new_cost < old_cost - EPS
        routes_reduced == Abs(new_cost - old_cost) < EPS /\ new_routes < old_routes
    IN  cost_improved \/ routes_reduced

\* a slip of the restart: after an acceptance the scan goes on with the next
\* neighbourhood instead of restarting from the first
VND_next_k_no_restart(idx, accepted) == idx + 1

\* a slip of the advance: after a rejection the next neighbourhood is skipped
VND_next_k_skips_one(idx, accepted) == IF accepted THEN 0 ELSE idx + 2

\* k = 0 on acceptance, k += 1 otherwise
VND_next_k(idx, accepted) == IF accepted THEN 0 ELSE idx + 1

RECURSIVE VND_loop(_, _, _, _, _, _)
VND_loop(sol, idx, dem, cap, d, or_opt) ==
    IF ~(idx < Len(VND_neighborhoods(or_opt))) THEN sol
    ELSE LET sol_new == VND_call(At(VND_neighborhoods(or_opt), idx), sol, dem, cap, d)
             accepted == VND_accepts(solution_cost(sol, d), Len(sol),
                                     solution_cost(sol_new, d), Len(sol_new))
         IN  VND_loop(IF accepted THEN sol_new ELSE sol, VND_next_k(idx, accepted),
                      dem, cap, d, or_opt)

VND(sol, dem, cap, d, or_opt) == VND_loop(sol, 0, dem, cap, d, or_opt)

(***************************************************************************)
(* Solutions and instances                                                 *)
(***************************************************************************)
Customers(dem) == DOMAIN dem \ {0}

\* how often customer c is visited by the routes of sol
Visits(sol, c) ==
    SumSeq([i \in 1..Len(sol) |->
               Cardinality({p \in 1..Len(sol[i]) : sol[i][p] = c})])

Covers(sol, dem) == \A c \in Customers(dem) : Visits(sol, c) = 1

Feasible(sol, dem, cap) == \A i \in 1..Len(sol) : route_demand(sol[i], dem) <= cap

WellFormed(sol) ==
    \A i \in 1..Len(sol) :
        /\ Len(sol[i]) > 2
        /\ sol[i][1] = 0 /\ sol[i][Len(sol[i])] = 0
        /\ \A p \in 2..Len(sol[i]) - 1 : sol[i][p] # 0

RECURSIVE Perms(_)
Perms(S) ==
    IF S = {} THEN {<<>>}
    ELSE UNION {{<<x>> \o p : p \in Perms(S \ {x})} : x \in S}

RECURSIVE Splits(_)
Splits(p) ==
    IF p = <<>> THEN {<<>>}
    ELSE UNION {{<<<<0>> \o SubSeq(p, 1, i) \o <<0>>>> \o rest
                    : rest \in Splits(SubSeq(p, i + 1, Len(p)))}
                : i \in 1..Len(p)}

\* every list of depot-to-depot routes that visits each customer of S once
AllSolutions(S) == UNION {Splits(p) : p \in Perms(S)}

DemandsOf(seq) == [i \in 0..Len(seq) - 1 |-> seq[i + 1]]

Idle == <<>>

(***************************************************************************)
(* Operators applied to any solution: one call per behaviour.              *)
(***************************************************************************)
MaxK == 2

OpsInstances ==
    { [coords |-> <<0, 30000, 60000, -40000, -20000>>,
       demands |-> <<0, 1, 1, 1, 1>>, capacity |-> 4],
      [coords |-> <<0, 50000, -30000, 20000, 80000>>,
       demands |-> <<0, 2, 1, 2, 1>>, capacity |-> 3],
      [coords |-> <<0, 4000, -3000, 2000000, 2000>>,
       demands |-> <<0, 1, 2, 4, 1>>, capacity |-> 3] }

OpsInit ==
    /\ \E inst \in OpsInstances :
          /\ demands = DemandsOf(inst.demands)
          /\ capacity = inst.capacity
          /\ dist = compute_distance_matrix(inst.coords)
          /\ solution \in AllSolutions(1..Len(inst.coords) - 1)
    /\ pc = "input" /\ op = "none" /\ result = Idle /\ k = 0
    /\ routes = Idle /\ unvisited = Idle /\ best = Idle /\ best_cost = 0
    /\ iteration = 0 /\ last_improvement = 0 /\ tabu_skips = 0
    /\ tabu_list = Idle /\ max_iter = 0 /\ use_or_opt = FALSE /\ last = Idle
    /\ heap = Idle

OpsFrame ==
    UNCHANGED <<demands, capacity, dist, heap, solution, routes, unvisited, best,
                best_cost, iteration, last_improvement, tabu_skips, tabu_list,
                max_iter, use_or_opt, last>>

Returns(name, kk, res) ==
    /\ pc' = "returned" /\ op' = name /\ k' = kk /\ result' = res
    /\ OpsFrame

ApplyN1 ==
    /\ pc = "input"
    /\ Returns("N1", 0, N1_two_opt_intra(solution, dist))
ApplyN2 ==
    /\ pc = "input"
    /\ Returns("N2", 0, N2_relocate_inter(solution, demands, capacity, dist))
ApplyN3 ==
    /\ pc = "input"
    /\ Returns("N3", 0, N3_swap_inter(solution, demands, capacity, dist))
ApplyN4 ==
    /\ pc = "input"
    /\ Returns("N4", 0, N4_two_opt_inter(solution, demands, capacity, dist))
ApplyN5 ==
    /\ pc = "input"
    /\ Returns("N5", 0, N5_merge_routes(solution, demands, capacity, dist))
ApplyN6 ==
    /\ pc = "input"
    /\ Returns("N6", 0, N6_or_opt(solution, demands, capacity, dist))
ApplyShakeN1 ==
    /\ pc = "input"
    /\ \E kk \in 1..MaxK :
          \E res \in Shake_N1_random_relocate(solution, demands, capacity, kk) :
              Returns("Shake_N1", kk, res)
ApplyShakeN2 ==
    /\ pc = "input"
    /\ \E kk \in 1..MaxK :
          \E res \in Shake_N2_random_swap(solution, demands, capacity, kk) :
              Returns("Shake_N2", kk, res)
ApplyShakeN3 ==
    /\ pc = "input"
    /\ \E kk \in 1..MaxK :
          \E res \in Shake_N3_double_bridge(solution, demands, capacity, kk) :
              Returns("Shake_N3", kk, res)
ApplyVND ==
    /\ pc = "input"
    /\ \E or_opt \in BOOLEAN :
          Returns(IF or_opt THEN "VND+N6" ELSE "VND", 0,
                  VND(solution, demands, capacity, dist, or_opt))

OpsNext ==
    \/ ApplyN1 \/ ApplyN2 \/ ApplyN3 \/ ApplyN4 \/ ApplyN5 \/ ApplyN6
    \/ ApplyShakeN1 \/ ApplyShakeN2 \/ ApplyShakeN3 \/ ApplyVND

SpecOps == OpsInit /\ [][OpsNext]_vars

Neighbourhoods == {"N1", "N2", "N3", "N4", "N5", "N6"}
Shakes == {"Shake_N1", "Shake_N2", "Shake_N3"}

(***************************************************************************)
(* Construction heuristics.  Iterating over a Python set visits it in an   *)
(* order the language does not fix: where that order breaks a tie, or      *)
(* where set.pop() picks an element, every outcome is kept.                *)
(***************************************************************************)
NoFragment == -1

RECURSIVE SortAscending(_)
SortAscending(S) ==
    IF S = {} THEN <<>>
    ELSE LET m == First(S) IN <<m>> \o SortAscending(S \ {m})

\* where customer c sits in route r (list.index), and the route holding it
IndexOf(r, c) == (CHOOSE p \in 1..Len(r) : r[p] = c /\ \A q \in 1..p - 1 : r[q] # c) - 1
Holds(r, c) == \E p \in 1..Len(r) : r[p] = c
RouteOf(rts, c) ==
    IF \E x \in 1..Len(rts) : Holds(rts[x], c)
    THEN (CHOOSE x \in 1..Len(rts) :
              Holds(rts[x], c) /\ \A y \in x + 1..Len(rts) : ~Holds(rts[y], c)) - 1
    ELSE NoFragment

\* list.remove(x): drops the first element equal to x
Remove(rts, x) == Pop(rts, IndexOf(rts, x))

\* Clarke-Wright savings
savings_pairs(dem, d) ==
    Rev(SortAscending({t \in {<<d[0][i] + d[0][j] - d[i][j], i, j>> :
                                 i \in Customers(dem), j \in Customers(dem)}
                          : t[2] < t[3]}))

\* a slip of the capacity test: only the first route is weighed
savings_fits_first_route_only(route_i, route_j, dem, cap) ==
    route_demand(route_i, dem) <= cap

savings_fits(route_i, route_j, dem, cap) ==
    route_demand(route_i, dem) + route_demand(route_j, dem) <= cap

savings_merge(rts, i, j, dem, cap) ==
    LET ri == RouteOf(rts, i)
        rj == RouteOf(rts, j)
        route_i == At(rts, ri)
        route_j == At(rts, rj)
        pos_i == IndexOf(route_i, i)
        pos_j == IndexOf(route_j, j)
        li == Len(route_i)
        lj == Len(route_j)
        merged(new_route) == Append(Remove(Remove(rts, route_i), route_j), new_route)
    IN  IF ri = NoFragment \/ rj = NoFragment \/ route_i = route_j THEN rts
        ELSE IF ~(pos_i \in {1, li - 2} /\ pos_j \in {1, lj - 2}) THEN rts
        ELSE IF ~savings_fits(route_i, route_j, dem, cap) THEN rts
        ELSE IF pos_i = li - 2 /\ pos_j = 1
             THEN merged(Slice(route_i, 0, li - 1) \o Slice(route_j, 1, lj))
        ELSE IF pos_i = 1 /\ pos_j = lj - 2
             THEN merged(Slice(route_j, 0, lj - 1) \o Slice(route_i, 1, li))
        ELSE IF pos_i = li - 2 /\ pos_j = lj - 2
             THEN merged(Slice(route_i, 0, li - 1) \o Rev(Interior(route_j)) \o <<0>>)
        ELSE IF pos_i = 1 /\ pos_j = 1
             THEN merged(<<0>> \o Rev(Interior(route_i)) \o Slice(route_j, 1, lj))
        ELSE rts

RECURSIVE savings_loop(_, _, _, _)
savings_loop(rts, savings, dem, cap) ==
    IF savings = <<>> THEN rts
    ELSE savings_loop(savings_merge(rts, Head(savings)[2], Head(savings)[3], dem, cap),
                      Tail(savings), dem, cap)

savings_algorithm(dem, cap, d) ==
    savings_loop([i \in 1..Cardinality(Customers(dem)) |-> <<0, i, 0>>],
                 savings_pairs(dem, d), dem, cap)

\* Nearest neighbour: one pass of the outer loop builds one route.  The
\* result is the set of <<route, unvisited>> the inner loop can end with.
RECURSIVE nn_extend(_, _, _, _, _, _, _)
nn_extend(route, current, route_load, unv, dem, cap, d) ==
    LET feasible == {c \in unv : route_load + dem[c] <= cap}
        nearest == {c \in feasible : \A o \in feasible : d[current][c] <= d[current][o]}
    IN  IF feasible = {} THEN {<<route, unv>>}
        ELSE UNION {nn_extend(Append(route, c), c, route_load + dem[c],
                              unv \ {c}, dem, cap, d) : c \in nearest}

close_route(rts, route) == IF Len(route) > 1 THEN Append(rts, Append(route, 0)) ELSE rts

\* the whole function: the routes it can return; none when a pass of the outer
\* loop routes no customer, for then the loop runs for ever
RECURSIVE nn_loop(_, _, _, _, _)
nn_loop(rts, unv, dem, cap, d) ==
    IF unv = {} THEN {rts}
    ELSE UNION {IF out[2] = unv THEN {}
                ELSE nn_loop(close_route(rts, out[1]), out[2], dem, cap, d)
                : out \in nn_extend(<<0>>, 0, 0, unv, dem, cap, d)}

nearest_neighbor_vrp(dem, cap, d) == nn_loop(<<>>, Customers(dem), dem, cap, d)

\* Greedy edge-based construction
greedy_edges(dem, d) ==
    SortAscending({t \in {<<d[i][j], i, j>> : i \in DOMAIN dem, j \in DOMAIN dem} : t[2] < t[3]})

greedy_init(dem) ==
    [fragments |-> <<>>, fragment_loads |-> <<>>,
     customer_to_fragment |-> [c \in DOMAIN dem |-> NoFragment],
     customer_degree |-> [c \in DOMAIN dem |-> 0]]

greedy_bump(deg, i, j) ==
    [c \in DOMAIN deg |-> IF c # 0 /\ (c = i \/ c = j) THEN deg[c] + 1 ELSE deg[c]]

greedy_new_fragment(st, i, j, load) ==
    [fragments |-> Append(st.fragments, <<i, j>>),
     fragment_loads |-> Append(st.fragment_loads, load),
     customer_to_fragment |->
        [c \in DOMAIN st.customer_to_fragment |->
            IF c # 0 /\ (c = i \/ c = j) THEN Len(st.fragments)
            ELSE st.customer_to_fragment[c]],
     customer_degree |-> greedy_bump(st.customer_degree, i, j)]

\* the edge joins node `new` to the fragment `frag` at its end node `old`
greedy_grow(st, frag, old, new, dem, cap) ==
    LET fragment == At(st.fragments, frag)
        new_load == At(st.fragment_loads, frag) + (IF new # 0 THEN dem[new] ELSE 0)
    IN  IF new_load <= cap /\ (old = fragment[1] \/ old = fragment[Len(fragment)])
        THEN [fragments |-> SetAt(st.fragments, frag,
                                  IF old = fragment[1] THEN <<new>> \o fragment
                                  ELSE Append(fragment, new)),
              fragment_loads |-> SetAt(st.fragment_loads, frag, new_load),
              customer_to_fragment |->
                 [c \in DOMAIN st.customer_to_fragment |->
                     IF c # 0 /\ c = new THEN frag ELSE st.customer_to_fragment[c]],
              customer_degree |-> greedy_bump(st.customer_degree, old, new)]
        ELSE st

greedy_join(st, frag_i, frag_j, i, j, cap) ==
    LET frag1 == At(st.fragments, frag_i)
        frag2 == At(st.fragments, frag_j)
        new_load == At(st.fragment_loads, frag_i) + At(st.fragment_loads, frag_j)
        i_at_end == (i = frag1[1] \/ i = frag1[Len(frag1)])
        j_at_end == (j = frag2[1] \/ j = frag2[Len(frag2)])
        joined(merged) ==
            [fragments |-> SetAt(SetAt(st.fragments, frag_i, merged), frag_j, <<>>),
             fragment_loads |-> SetAt(SetAt(st.fragment_loads, frag_i, new_load), frag_j, 0),
             customer_to_fragment |->
                [c \in DOMAIN st.customer_to_fragment |->
                    IF c # 0 /\ Holds(frag2, c) THEN frag_i
                    ELSE st.customer_to_fragment[c]],
             customer_degree |-> greedy_bump(st.customer_degree, i, j)]
    IN  IF ~(new_load <= cap /\ i_at_end /\ j_at_end) THEN st
        ELSE IF i = frag1[Len(frag1)] /\ j = frag2[1] THEN joined(frag1 \o frag2)
        ELSE IF i = frag1[1] /\ j = frag2[Len(frag2)] THEN joined(frag2 \o frag1)
        ELSE IF i = frag1[Len(frag1)] /\ j = frag2[Len(frag2)] THEN joined(frag1 \o Rev(frag2))
        ELSE IF i = frag1[1] /\ j = frag2[1] THEN joined(Rev(frag1) \o frag2)
        ELSE st

greedy_step(st, e, dem, cap) ==
    LET i == e[2]
        j == e[3]
        frag_i == st.customer_to_fragment[i]
        frag_j == st.customer_to_fragment[j]
    IN  IF i # 0 /\ st.customer_degree[i] >= 2 THEN st
        ELSE IF j # 0 /\ st.customer_degree[j] >= 2 THEN st
        ELSE IF frag_i = NoFragment /\ frag_j = NoFragment
             THEN IF i = 0 \/ j = 0
                  THEN LET customer == IF i = 0 THEN j ELSE i
                       IN  IF dem[customer] <= cap
                           THEN greedy_new_fragment(st, i, j, dem[customer])
                           ELSE st
                  ELSE IF dem[i] + dem[j] <= cap
                       THEN greedy_new_fragment(st, i, j, dem[i] + dem[j])
                       ELSE st
        ELSE IF frag_i # NoFragment /\ frag_j = NoFragment
             THEN greedy_grow(st, frag_i, i, j, dem, cap)
        ELSE IF frag_i = NoFragment /\ frag_j # NoFragment
             THEN greedy_grow(st, frag_j, j, i, dem, cap)
        ELSE IF frag_i # frag_j
             THEN greedy_join(st, frag_i, frag_j, i, j, cap)
        ELSE st

RECURSIVE greedy_loop(_, _, _, _)
greedy_loop(st, edges, dem, cap) ==
    IF edges = <<>> THEN st
    ELSE greedy_loop(greedy_step(st, Head(edges), dem, cap), Tail(edges), dem, cap)

\* a slip of the closing step: the depot is not appended at the end
greedy_close_front_only(fragment) ==
    IF fragment[1] # 0 THEN <<0>> \o fragment ELSE fragment

greedy_close(fragment) ==
    LET front == IF fragment[1] # 0 THEN <<0>> \o fragment ELSE fragment
    IN  IF front[Len(front)] # 0 THEN Append(front, 0) ELSE front

greedy_routes(st) ==
    SelectSeq([x \in 1..Len(st.fragments) |->
                  IF st.fragments[x] = <<>> THEN <<>> ELSE greedy_close(st.fragments[x])],
              LAMBDA r : Len(r) > 2)

greedy_leftover(st, dem, cap) ==
    LET left == {c \in Customers(dem) :
                    st.customer_to_fragment[c] = NoFragment /\ dem[c] <= cap}
        order == SortAscending({<<c>> : c \in left})
    IN  [x \in 1..Len(order) |-> <<0, order[x][1], 0>>]

greedy_vrp(dem, cap, d) ==
    LET st == greedy_loop(greedy_init(dem), greedy_edges(dem, d), dem, cap)
    IN  greedy_routes(st) \o greedy_leftover(st, dem, cap)

\* Cheapest insertion
ci_farthest(unv, d) == {c \in unv : \A o \in unv : d[0][c] >= d[0][o]}

ci_increase(rts, m, d) ==
    LET route == At(rts, m[2])
    IN  d[At(route, m[3] - 1)][m[1]] + d[m[1]][At(route, m[3])]
        - d[At(route, m[3] - 1)][At(route, m[3])]

ci_fits(rts, r_idx, customer, dem, cap) ==
    route_demand(At(rts, r_idx), dem) + dem[customer] <= cap

ci_scan(rts, unv, dem, cap) ==
    UNION {UNION {{<<customer, r_idx, pos>> : pos \in 1..Len(At(rts, r_idx)) - 1}
                  : r_idx \in {x \in 0..Len(rts) - 1 : ci_fits(rts, x, customer, dem, cap)}}
           : customer \in unv}

\* the insertions one pass can choose: of least increase, and for its
\* customer the first such in the order of the route and position loops
ci_best(rts, unv, dem, cap, d) ==
    LET C == ci_scan(rts, unv, dem, cap)
        least == {m \in C : \A o \in C : ci_increase(rts, m, d) <= ci_increase(rts, o, d)}
    IN  {m \in least : \A o \in least : o[1] = m[1] => (o = m \/ LexLess(m, o))}

ci_insert(rts, m) == SetAt(rts, m[2], Insert(At(rts, m[2]), m[3], m[1]))

ci_open(rts, customer, dem, cap) ==
    IF dem[customer] <= cap THEN Append(rts, <<0, customer, 0>>) ELSE rts

\* one pass of the loop: the <<routes, unvisited>> it can lead to
ci_pass(rts, unv, dem, cap, d) ==
    IF ci_best(rts, unv, dem, cap, d) = {}
    THEN {<<ci_open(rts, customer, dem, cap), unv \ {customer}>> : customer \in unv}
    ELSE {<<ci_insert(rts, m), unv \ {m[1]}>> : m \in ci_best(rts, unv, dem, cap, d)}

RECURSIVE ci_loop(_, _, _, _, _)
ci_loop(rts, unv, dem, cap, d) ==
    IF unv = {} THEN {rts}
    ELSE UNION {ci_loop(out[1], out[2], dem, cap, d) : out \in ci_pass(rts, unv, dem, cap, d)}

cheapest_insertion_vrp(dem, cap, d) ==
    UNION {ci_loop(<<<<0, farthest, 0>>>>, Customers(dem) \ {farthest}, dem, cap, d)
           : farthest \in ci_farthest(Customers(dem), d)}

\* Random construction: pack the customers in the shuffled order
random_pack(st, customer, dem, cap) ==
    IF st.current_load + dem[customer] <= cap
    THEN [st EXCEPT !.current_route = Append(@, customer),
                    !.current_load = @ + dem[customer]]
    ELSE [routes |-> close_route(st.routes, st.current_route),
          current_route |-> <<0, customer>>,
          current_load |-> dem[customer]]

RECURSIVE random_loop(_, _, _, _)
random_loop(st, customers, dem, cap) ==
    IF customers = <<>> THEN st
    ELSE random_loop(random_pack(st, Head(customers), dem, cap), Tail(customers), dem, cap)

random_initial_solution(shuffled, dem, cap) ==
    LET st == random_loop([routes |-> <<>>, current_route |-> <<0>>, current_load |-> 0],
                          shuffled, dem, cap)
    IN  close_route(st.routes, st.current_route)

(***************************************************************************)
(* The construction heuristics run on any instance (SpecCons).             *)
(***************************************************************************)
MaxDemand == 3

ConsCoords ==
    { <<0, 30000, 60000, -40000, -20000>>,
      <<0, 50000, 50000, -50000, 20000>>,
      <<0, 4000, -3000, 2000000, 0>> }

ConsCapacities == {2, 3}

ConsInit ==
    /\ \E coords \in ConsCoords :
          /\ dist = compute_distance_matrix(coords)
          /\ demands \in {f \in [0..Len(coords) - 1 -> 0..MaxDemand] :
                             f[0] = 0 /\ \A c \in 1..Len(coords) - 1 : f[c] >= 1}
    /\ capacity \in ConsCapacities
    /\ pc = "start" /\ op = "none" /\ routes = <<>> /\ unvisited = {}
    /\ solution = Idle /\ result = Idle /\ k = 0 /\ best = Idle /\ best_cost = 0
    /\ iteration = 0 /\ last_improvement = 0 /\ tabu_skips = 0
    /\ tabu_list = Idle /\ max_iter = 0 /\ use_or_opt = FALSE /\ last = Idle
    /\ heap = Idle

ConsFrame ==
    UNCHANGED <<demands, capacity, dist, heap, solution, result, k, best, best_cost,
                iteration, last_improvement, tabu_skips, tabu_list, max_iter,
                use_or_opt, last>>

ConsReturns(method, rts) ==
    /\ pc' = "done" /\ op' = method /\ routes' = rts /\ unvisited' = {}
    /\ ConsFrame

Savings ==
    /\ pc = "start"
    /\ ConsReturns("Clarke-Wright", savings_algorithm(demands, capacity, dist))

NearestNeighborStart ==
    /\ pc = "start"
    /\ pc' = "nearest_neighbor" /\ op' = "nearest_neighbor"
    /\ routes' = <<>> /\ unvisited' = Customers(demands)
    /\ ConsFrame

NearestNeighborPass ==
    /\ pc = "nearest_neighbor" /\ unvisited # {}
    /\ \E out \in nn_extend(<<0>>, 0, 0, unvisited, demands, capacity, dist) :
          /\ routes' = close_route(routes, out[1])
          /\ unvisited' = out[2]
    /\ UNCHANGED <<pc, op>>
    /\ ConsFrame

NearestNeighborReturn ==
    /\ pc = "nearest_neighbor" /\ unvisited = {}
    /\ ConsReturns("nearest_neighbor", routes)

Greedy ==
    /\ pc = "start"
    /\ ConsReturns("greedy", greedy_vrp(demands, capacity, dist))

CheapestInsertion ==
    /\ pc = "start"
    /\ \E rts \in cheapest_insertion_vrp(demands, capacity, dist) :
          ConsReturns("cheapest_insertion", rts)

Random ==
    /\ pc = "start"
    /\ \E shuffled \in Perms(Customers(demands)) :
          ConsReturns("random", random_initial_solution(shuffled, demands, capacity))

ConsNext ==
    \/ Savings
    \/ NearestNeighborStart \/ NearestNeighborPass \/ NearestNeighborReturn
    \/ Greedy \/ CheapestInsertion \/ Random

SpecCons == ConsInit /\ [][ConsNext]_vars

(***************************************************************************)
(* Claims about the operators (SpecOps)                                    *)
(***************************************************************************)
SamePartition(a, b) ==
    /\ Len(a) = Len(b)
    /\ \A i \in 1..Len(a) :
          {a[i][p] : p \in 1..Len(a[i])} = {b[i][p] : p \in 1..Len(b[i])}

\* C1: for every input solution that visits each customer 1..n-1 exactly
\* once, the solution returned by any neighbourhood operator N1..N6 and by
\* any shaking operator (any strength, any random choices) again visits each
\* customer exactly once across all its routes.
C1_Coverage ==
    (pc = "returned" /\ op \in Neighbourhoods \cup Shakes /\ Covers(solution, demands))
        => Covers(result, demands)

\* a relocation of Shake_N1 emptied a route, which was then dropped
C1_Witness ==
    /\ pc = "returned" /\ op = "Shake_N1"
    /\ Covers(solution, demands)
    /\ Len(result) < Len(solution)

\* C2: if every route of the input solution has demand <= capacity, every
\* route of the solution returned by a neighbourhood operator N1..N6 or a
\* shaking operator has demand <= capacity, also when Shake_N1 picks the
\* source route as the destination.
C2_CapacityFeasible ==
    (pc = "returned" /\ op \in Neighbourhoods \cup Shakes
        /\ Feasible(solution, demands, capacity))
        => Feasible(result, demands, capacity)

\* one relocation of Shake_N1 whose destination was the source route: the
\* routes hold the same customers as before, in another order
C2_Witness ==
    /\ pc = "returned" /\ op = "Shake_N1" /\ k = 1
    /\ Feasible(solution, demands, capacity)
    /\ result # solution
    /\ SamePartition(solution, result)

\* C9: for every feasible input solution s, VND(VND(s)) = VND(s), routes and
\* their order included, and each neighbourhood VND includes (N1, N5, N2, N3,
\* N4, and N6 when use_or_opt is set) returns the output of VND unchanged.
C9_VNDIdempotent ==
    (pc = "returned" /\ op \in {"VND", "VND+N6"} /\ Feasible(solution, demands, capacity))
        => LET or_opt == (op = "VND+N6")
               names == VND_neighborhoods(or_opt)
           IN  /\ VND(result, demands, capacity, dist, or_opt) = result
               /\ \A i \in 1..Len(names) :
                      VND_call(names[i], result, demands, capacity, dist) = result

\* VND moved a feasible solution to another one with fewer routes
C9_Witness ==
    /\ pc = "returned" /\ op \in {"VND", "VND+N6"}
    /\ Feasible(solution, demands, capacity)
    /\ Len(result) < Len(solution)
    /\ solution_cost(result, dist) < solution_cost(solution, dist)

(***************************************************************************)
(* Claims about the construction heuristics (SpecCons)                     *)
(***************************************************************************)
AllFit(dem, cap) == \A c \in Customers(dem) : dem[c] <= cap

DepotToDepot(sol) ==
    \A i \in 1..Len(sol) :
        Len(sol[i]) >= 2 /\ sol[i][1] = 0 /\ sol[i][Len(sol[i])] = 0

\* C3: each of the five construction strategies returns, for any demands and
\* capacity, routes whose total demand is each <= capacity.
C3_ConstructionFeasible ==
    pc = "done" => Feasible(routes, demands, capacity)

\* C4: when every customer's demand is <= capacity, each of the five
\* construction strategies returns routes that each start and end at the
\* depot and that together visit every customer 1..n-1 exactly once.
C4_ConstructionCovers ==
    (pc = "done" /\ AllFit(demands, capacity))
        => (DepotToDepot(routes) /\ Covers(routes, demands))

\* the greedy construction returned several routes, one with two customers
C4_Witness ==
    /\ pc = "done" /\ op = "greedy" /\ AllFit(demands, capacity)
    /\ Len(routes) >= 2
    /\ \E i \in 1..Len(routes) : Len(routes[i]) >= 4


(***************************************************************************)
(* VNS_solver: construct, descend, then shake / tabu check / VND / accept  *)
(* until the iteration, time or patience limit.                            *)
(***************************************************************************)
Length(dem) == Cardinality(DOMAIN dem)

\* sorted(): ints ascending; tuples in Python's order, a proper prefix first
RECURSIVE TupleLess(_, _)
TupleLess(a, b) ==
    IF b = <<>> THEN FALSE
    ELSE IF a = <<>> THEN TRUE
    ELSE IF Head(a) # Head(b) THEN Head(a) < Head(b)
    ELSE TupleLess(Tail(a), Tail(b))

\* a slip of the fingerprint: the customers of a route are kept in route order
sorted_ints_unsorted(s) == s

RECURSIVE sorted_ints(_)
sorted_ints(s) ==
    IF s = <<>> THEN <<>>
    ELSE LET p == CHOOSE i \in 1..Len(s) :
                      \A j \in 1..Len(s) : s[i] < s[j] \/ (s[i] = s[j] /\ i <= j)
         IN  <<s[p]>> \o sorted_ints(Pop(s, p - 1))

RECURSIVE sorted_tuples(_)
sorted_tuples(s) ==
    IF s = <<>> THEN <<>>
    ELSE LET p == CHOOSE i \in 1..Len(s) :
                      \A j \in 1..Len(s) :
                          TupleLess(s[i], s[j]) \/ (~TupleLess(s[j], s[i]) /\ i <= j)
         IN  <<s[p]>> \o sorted_tuples(Pop(s, p - 1))

\* a slip of the fingerprint: the customers of a route are kept in visiting order
solution_hash_in_visiting_order(sol) ==
    sorted_tuples([i \in 1..Len(sol) |-> Interior(sol[i])])

solution_hash(sol) ==
    sorted_tuples([i \in 1..Len(sol) |-> sorted_ints(Interior(sol[i]))])

InList(x, list) == \E i \in 1..Len(list) : list[i] = x

CONSTRUCTION_METHODS ==
    {"Clarke-Wright", "nearest_neighbor", "greedy", "cheapest_insertion", "random"}

build_initial_solution(method, dem, cap, d) ==
    CASE method = "nearest_neighbor" -> nearest_neighbor_vrp(dem, cap, d)
      [] method = "greedy" -> {greedy_vrp(dem, cap, d)}
      [] method = "cheapest_insertion" -> cheapest_insertion_vrp(dem, cap, d)
      [] method = "random" ->
            {random_initial_solution(shuffled, dem, cap) : shuffled \in Perms(Customers(dem))}
      [] OTHER -> {savings_algorithm(dem, cap, d)}

tabu_tenure(n) == Min2(TABU_TENURE_MAX, Max2(TABU_TENURE_MIN, n \div 20))
patience(n) == Min2(PATIENCE_MAX, Max2(PATIENCE_MIN, n \div 5))
min_iterations(n) == Max2(MIN_ITER_FLOOR, n \div 10)

shake(sol, dem, cap, kk) ==
    LET shake_idx == (kk - 1) % 3
    IN  CASE shake_idx = 0 -> Shake_N1_random_relocate(sol, dem, cap, kk)
          [] shake_idx = 1 -> Shake_N2_random_swap(sol, dem, cap, kk)
          [] shake_idx = 2 -> Shake_N3_double_bridge(sol, dem, cap, kk)

\* while iteration < max_iter (and the clock allows)
loop_continues_inclusive(it, limit) == it <= limit

loop_continues(it, limit) == it < limit

accept(cost_local, routes_local, b_cost, b_routes) ==
    \/ cost_local < b_cost - EPS
    \/ Abs(cost_local - b_cost) < EPS /\ routes_local < b_routes

\* tabu_list.append(h); if len(tabu_list) > tabu_tenure: tabu_list.pop(0)
tabu_insert_unbounded(list, h, tenure) == Append(list, h)

\* a slip of the eviction: the newest entry is dropped instead of the oldest
tabu_insert_evicts_newest(list, h, tenure) ==
    IF Len(Append(list, h)) > tenure THEN list ELSE Append(list, h)

tabu_insert(list, h, tenure) ==
    IF Len(Append(list, h)) > tenure THEN Pop(Append(list, h), 0)
    ELSE Append(list, h)

\* the search state a pass reads and writes
SearchState ==
    [best |-> best, best_cost |-> best_cost, last_improvement |-> last_improvement,
     k |-> k, tabu_list |-> tabu_list, tabu_skips |-> tabu_skips]

\* a slip of the tabu branch: the skip is not counted
tabu_skip_uncounted(st) == [st EXCEPT !.k = (st.k % K_MAX) + 1]

tabu_skip(st) ==
    [st EXCEPT !.tabu_skips = st.tabu_skips + 1, !.k = (st.k % K_MAX) + 1]

accepted_stale_cost(st, s_local, cost_local, it, tenure) ==
    [st EXCEPT !.best = s_local, !.last_improvement = it, !.k = 1,
               !.tabu_list = tabu_insert(st.tabu_list, solution_hash(s_local), tenure)]

accepted(st, s_local, cost_local, it, tenure) ==
    [st EXCEPT !.best = s_local, !.best_cost = cost_local,
               !.last_improvement = it, !.k = 1,
               !.tabu_list = tabu_insert(st.tabu_list, solution_hash(s_local), tenure)]

\* a slip of the wrap-around: k grows past k_max
rejected_no_wrap(st) == [st EXCEPT !.k = st.k + 1]

rejected(st) == [st EXCEPT !.k = (st.k % K_MAX) + 1]

early_stop(it, last_imp, n) ==
    it > min_iterations(n) /\ it - last_imp > patience(n)

\* iteration += 1, then the early-stopping test
end_of_pass(outcome, st, it, n) ==
    [outcome |-> outcome, st |-> st,
     break |-> early_stop(it + 1, st.last_improvement, n)]

decide_keeps_rejected(st, s_local, cost_local, it, n) ==
    IF accept(cost_local, Len(s_local), st.best_cost, Len(st.best))
    THEN end_of_pass("accepted",
                     accepted(st, s_local, cost_local, it, tabu_tenure(n)), it, n)
    ELSE end_of_pass("rejected",
                     [rejected(st) EXCEPT !.best = s_local, !.best_cost = cost_local],
                     it, n)

\* the acceptance test and the branch it selects
decide(st, s_local, cost_local, it, n) ==
    IF accept(cost_local, Len(s_local), st.best_cost, Len(st.best))
    THEN end_of_pass("accepted",
                     accepted(st, s_local, cost_local, it, tabu_tenure(n)), it, n)
    ELSE end_of_pass("rejected", rejected(st), it, n)

local_search(st, s_local, it, d, n) ==
    decide(st, s_local, solution_cost(s_local, d), it, n)

\* one pass of the loop from search state st: the outcome, the state it
\* leaves and whether the early-stopping test was reached and fired
pass(st, s_shaken, it, dem, cap, d, or_opt) ==
    IF InList(solution_hash(s_shaken), st.tabu_list)
    THEN [outcome |-> "tabu_skip", st |-> tabu_skip(st), break |-> FALSE]
    ELSE local_search(st, VND(s_shaken, dem, cap, d, or_opt), it, d, Length(dem))

MaxIter == 302
MaxIterShort == 6

VNSInstances ==
    { [coords |-> <<0, 1, 30000, -10000000>>, demands |-> <<0, 1, 1, 1>>,
       capacity |-> 3, methods |-> {"greedy"}, or_opts |-> {FALSE},
       limits |-> 0..MaxIterShort \cup {MaxIter}],
      [coords |-> <<0, 50000, -30000, 20000>>, demands |-> <<0, 2, 1, 2>>,
       capacity |-> 3, methods |-> CONSTRUCTION_METHODS, or_opts |-> BOOLEAN,
       limits |-> 0..MaxIterShort] }

VNSInit ==
    /\ \E inst \in VNSInstances :
          /\ demands = DemandsOf(inst.demands)
          /\ capacity = inst.capacity
          /\ dist = compute_distance_matrix(inst.coords)
          /\ op \in inst.methods
          /\ max_iter \in inst.limits
          /\ use_or_opt \in inst.or_opts
    /\ pc = "constructing" /\ solution = Idle /\ result = Idle
    /\ routes = Idle /\ unvisited = Idle
    /\ best = Idle /\ best_cost = 0 /\ k = 0 /\ iteration = 0
    /\ last_improvement = 0 /\ tabu_skips = 0 /\ tabu_list = Idle
    /\ last = [outcome |-> "none", stop |-> "none", shaken |-> Idle]
    /\ heap = Idle

VNSFrame == UNCHANGED <<demands, capacity, dist, heap, op, max_iter, use_or_opt, routes, unvisited>>

\* s, method_label = _build_initial_solution(...)
Construct ==
    /\ pc = "constructing"
    /\ \E s \in build_initial_solution(op, demands, capacity, dist) : solution' = s
    /\ pc' = "descending"
    /\ UNCHANGED <<result, best, best_cost, k, iteration, last_improvement,
                   tabu_skips, tabu_list, last>>
    /\ VNSFrame

\* the initial VND and the set-up of the search
Descend ==
    /\ pc = "descending"
    /\ best' = VND(solution, demands, capacity, dist, use_or_opt)
    /\ best_cost' = solution_cost(best', dist)
    /\ tabu_list' = <<>> /\ k' = 1 /\ iteration' = 0
    /\ last_improvement' = 0 /\ tabu_skips' = 0
    /\ pc' = "searching"
    /\ UNCHANGED <<solution, result, last>>
    /\ VNSFrame

Pass ==
    /\ pc = "searching"
    /\ loop_continues(iteration, max_iter)
    /\ \E s_shaken \in shake(best, demands, capacity, k) :
        \E out \in {pass(SearchState, s_shaken, iteration, demands, capacity,
                         dist, use_or_opt)} :
              /\ best' = out.st.best
              /\ best_cost' = out.st.best_cost
              /\ last_improvement' = out.st.last_improvement
              /\ k' = out.st.k
              /\ tabu_list' = out.st.tabu_list
              /\ tabu_skips' = out.st.tabu_skips
              /\ iteration' = iteration + 1
              /\ pc' = IF out.break THEN "returned" ELSE "searching"
              /\ result' = IF out.break THEN out.st.best ELSE result
              /\ last' = [outcome |-> out.outcome,
                          stop |-> IF out.break THEN "patience" ELSE "none",
                          shaken |-> s_shaken]
    /\ UNCHANGED solution
    /\ VNSFrame

\* the while condition fails on the iteration count
IterationLimit ==
    /\ pc = "searching"
    /\ ~loop_continues(iteration, max_iter)
    /\ pc' = "returned" /\ result' = best
    /\ last' = [last EXCEPT !.stop = "max_iter"]
    /\ UNCHANGED <<solution, best, best_cost, k, iteration, last_improvement,
                   tabu_skips, tabu_list>>
    /\ VNSFrame

\* the while condition fails on the clock: max_time may run out at any test
TimeLimit ==
    /\ pc = "searching"
    /\ pc' = "returned" /\ result' = best
    /\ last' = [last EXCEPT !.stop = "max_time"]
    /\ UNCHANGED <<solution, best, best_cost, k, iteration, last_improvement,
                   tabu_skips, tabu_list>>
    /\ VNSFrame

VNSNext == Construct \/ Descend \/ Pass \/ IterationLimit \/ TimeLimit

SpecVNS == VNSInit /\ [][VNSNext]_vars

\* The runs with a short iteration limit, under the scheduling of a
\* sequential program: until it has returned it takes its next step.  This
\* is WF_vars(VNSNext) with ENABLED <<VNSNext>>_vars written out as the
\* state predicate it equals, pc # "returned".
ShortInit == VNSInit /\ max_iter <= MaxIterShort

Scheduling == []<>(pc = "returned") \/ []<><<VNSNext>>_vars

FairVNS ==
    ShortInit /\ [][VNSNext]_vars /\ WF_vars(IterationLimit) /\ Scheduling

(***************************************************************************)
(* The tabu list under any sequence of accepted solutions.  Whatever the   *)
(* shake and VND return, an accepting pass runs the same lines 175-183     *)
(* and a pass whose candidate is in the list runs lines 150-154; a pass    *)
(* that rejects leaves the list alone.  Every run of VNS_solver updates    *)
(* its tabu list as some behaviour of SpecTabu does.                       *)
(***************************************************************************)
MaxAccepts == 12

TabuInstances ==
    { [coords |-> <<0, 30000, -20000>>, demands |-> <<0, 1, 1>>, capacity |-> 2] }

TabuInit ==
    /\ \E inst \in TabuInstances :
          /\ demands = DemandsOf(inst.demands)
          /\ capacity = inst.capacity
          /\ dist = compute_distance_matrix(inst.coords)
          /\ best \in AllSolutions(1..Len(inst.coords) - 1)
    /\ best_cost = solution_cost(best, dist)
    /\ pc = "searching" /\ op = "none" /\ solution = Idle /\ result = Idle
    /\ routes = Idle /\ unvisited = Idle /\ max_iter = MaxAccepts
    /\ use_or_opt = FALSE /\ k = 1 /\ iteration = 0
    /\ last_improvement = 0 /\ tabu_skips = 0 /\ tabu_list = <<>>
    /\ last = [outcome |-> "none", stop |-> "none", shaken |-> Idle]
    /\ heap = Idle

\* an accepting pass, for any s_local
AcceptAny ==
    /\ pc = "searching"
    /\ loop_continues(iteration, max_iter)
    /\ \E s_local \in AllSolutions(Customers(demands)) :
        \E st \in {accepted(SearchState, s_local, solution_cost(s_local, dist),
                            iteration, tabu_tenure(Length(demands)))} :
              /\ best' = st.best
              /\ best_cost' = st.best_cost
              /\ last_improvement' = st.last_improvement
              /\ k' = st.k
              /\ tabu_list' = st.tabu_list
    /\ iteration' = iteration + 1
    /\ last' = [outcome |-> "accepted", stop |-> "none", shaken |-> Idle]
    /\ UNCHANGED <<pc, solution, result, tabu_skips>>
    /\ VNSFrame

\* a pass whose shaken candidate, any solution, is found in the tabu list
SkipAny ==
    /\ pc = "searching"
    /\ loop_continues(iteration, max_iter)
    /\ \E s_shaken \in AllSolutions(Customers(demands)) :
          /\ InList(solution_hash(s_shaken), tabu_list)
          /\ \E st \in {tabu_skip(SearchState)} :
                /\ k' = st.k
                /\ tabu_skips' = st.tabu_skips
                /\ tabu_list' = st.tabu_list
                /\ best' = st.best
                /\ best_cost' = st.best_cost
                /\ last_improvement' = st.last_improvement
          /\ last' = [outcome |-> "tabu_skip", stop |-> "none", shaken |-> s_shaken]
    /\ iteration' = iteration + 1
    /\ UNCHANGED <<pc, solution, result>>
    /\ VNSFrame

TabuNext == AcceptAny \/ SkipAny

SpecTabu == TabuInit /\ [][TabuNext]_vars

(***************************************************************************)
(* Claims about VNS_solver                                                 *)
(***************************************************************************)
InSearch == pc \in {"searching", "returned"}

\* a step that runs one pass of the loop: it goes on, or breaks for patience
PassStep == pc = "searching" /\ (pc' = "searching" \/ last'.stop = "patience")

\* C5: in VNS_solver, best_cost is non-increasing over the iterations of
\* the search loop, under both acceptance rules (cost lower by more than
\* epsilon, or a cost tie within epsilon with fewer routes).
C5_BestCostNonIncreasing ==
    [][pc = "searching" => best_cost' <= best_cost]_vars

\* C6: the search loop terminates after at most max_iter passes: every pass
\* (accepted, rejected or tabu-skipped) increments the iteration counter by
\* exactly one, the count never exceeds max_iter, and the loop is left.
C6_Termination ==
    /\ [][PassStep => iteration' = iteration + 1]_vars
    /\ [][pc = "searching" /\ ~PassStep => iteration' = iteration]_vars
    /\ [](InSearch => iteration <= max_iter)
    /\ [](pc = "searching" => <>(pc = "returned"))

C6_Witness ==
    /\ pc = "returned" /\ last.stop = "max_iter"
    /\ iteration = max_iter /\ max_iter > 0
    /\ tabu_skips > 0 /\ Len(tabu_list) > 0

\* C7: the patience-based early stop fires exactly when, at the end of an
\* iteration, iteration - last_improvement > patience and iteration >
\* min_iterations: after any pass of the loop (a tabu-skipped one included)
\* the loop stops for patience if and only if that condition holds.
C7_PatienceStop ==
    [][iteration' = iteration + 1
          => ((pc' = "returned" /\ last'.stop = "patience")
                <=> early_stop(iteration', last_improvement', Length(demands)))]_vars

\* C8: the tabu list never holds more than tabu_tenure fingerprints, where
\* tabu_tenure = min(TABU_TENURE_MAX, max(TABU_TENURE_MIN, n // 20)).
C8_TabuBound ==
    Len(tabu_list) <= Min2(TABU_TENURE_MAX,
                           Max2(TABU_TENURE_MIN, Length(demands) \div 20))

C8_Witness ==
    /\ Len(tabu_list) = tabu_tenure(Length(demands))
    /\ iteration > tabu_tenure(Length(demands))
    /\ last.outcome = "accepted"

\* C10: in every state of the search loop and at return, the cached
\* best_cost equals solution_cost(best, dist).
C10_CostConsistent ==
    InSearch => best_cost = solution_cost(best, dist)

C10_Witness ==
    /\ pc = "returned" /\ last.outcome = "accepted"
    /\ best_cost # solution_cost(VND(solution, demands, capacity, dist, use_or_opt), dist)
    /\ best_cost = solution_cost(best, dist)

(***************************************************************************)
(* Customers that fit no vehicle (SpecCons)                                *)
(***************************************************************************)
Oversized(dem, cap) == {c \in Customers(dem) : dem[c] > cap}

\* C11: a customer whose demand exceeds the capacity appears in no route of
\* the solution returned by any of the five construction strategies.
C11_OversizedNeverPlaced ==
    pc = "done" => \A c \in Oversized(demands, capacity) : Visits(routes, c) = 0

\* C12: nearest_neighbor_vrp terminates on every instance: each pass of its
\* outer loop, entered with customers still unvisited, routes at least one of
\* them, so that the loop ends and the routes built so far are returned.  A
\* pass that routes nobody leaves routes and unvisited as they were, and the
\* same pass is run again without end.
C12_NearestNeighborTerminates ==
    (pc = "nearest_neighbor" /\ unvisited # {})
        => \A out \in nn_extend(<<0>>, 0, 0, unvisited, demands, capacity, dist) :
               out[2] # unvisited

(***************************************************************************)
(* Further claims about VNS_solver                                         *)
(***************************************************************************)
\* C13: VNS_solver returns the best solution it holds when a stop condition
\* fires; when no pass was accepted (max_iter = 0, or every pass rejected or
\* skipped) the returned solution and cost are those of the initial VND
\* applied to the construction output.  An accepting pass appends to the
\* tabu list, which never empties again, so an empty list means that no pass
\* was accepted.
C13_ReturnsBestHeld ==
    pc = "returned" =>
        /\ result = best
        /\ best_cost = solution_cost(best, dist)
        /\ tabu_list = <<>> =>
              /\ result = VND(solution, demands, capacity, dist, use_or_opt)
              /\ best_cost = solution_cost(
                                 VND(solution, demands, capacity, dist, use_or_opt), dist)

\* the iteration limit fired after passes that were all rejected
C13_Witness ==
    /\ pc = "returned" /\ last.stop = "max_iter" /\ last.outcome = "rejected"
    /\ iteration = max_iter /\ max_iter >= 2
    /\ tabu_list = <<>>
    /\ result = VND(solution, demands, capacity, dist, use_or_opt)

(***************************************************************************)
(* The ring scenario (SpecRing): five customers of demand 1 on a circle    *)
(* around the depot, capacity 3.  Coordinates are pairs in units of 0.01;  *)
(* math.hypot is rounded down to the unit, so that savings equal on the    *)
(* exact circle may differ by a unit, as they differ by an ulp in floats.  *)
(* list.sort compares the savings first: savings that are equal are met in *)
(* the order of (i, j), savings that differ only by rounding in an order   *)
(* the rounding decides, so every order of equal savings is run.           *)
(***************************************************************************)
RingPoints == << <<100, 0>>, <<31, 95>>, <<-81, 59>>, <<-81, -59>>, <<31, -95>> >>

RingDepot == <<0, 0>>

hypot(x, y) ==
    CHOOSE r \in 0..(Abs(x) + Abs(y)) :
        r * r <= x * x + y * y /\ (r + 1) * (r + 1) > x * x + y * y

euclidean_2d(a, b) == hypot(a[1] - b[1], a[2] - b[2])

compute_distance_matrix_2d(coords) ==
    [i \in 0..Len(coords) - 1 |->
        [j \in 0..Len(coords) - 1 |-> euclidean_2d(At(coords, i), At(coords, j))]]

\* the customers 1..5 laid on the five points in any order
RingInstances ==
    { <<RingDepot>> \o [i \in 1..Len(RingPoints) |-> RingPoints[p[i]]]
        : p \in Perms(1..Len(RingPoints)) }

\* the tuples (s, i, j) of savings_algorithm, before the sort
savings_tuples(dem, d) ==
    {t \in {<<d[0][i] + d[0][j] - d[i][j], i, j>> :
                i \in Customers(dem), j \in Customers(dem)} : t[2] < t[3]}

\* the lists in descending order of the saving, equal savings in any order
RECURSIVE savings_orders(_)
savings_orders(S) ==
    IF S = {} THEN {<<>>}
    ELSE LET top == CHOOSE s \in {t[1] : t \in S} : \A t \in S : t[1] <= s
         IN  UNION {{<<t>> \o o : o \in savings_orders(S \ {t})}
                       : t \in {u \in S : u[1] = top}}

savings_initial_routes(dem) == [i \in 1..Cardinality(Customers(dem)) |-> <<0, i, 0>>]

RingInit ==
    /\ \E coords \in RingInstances :
          /\ dist = compute_distance_matrix_2d(coords)
          /\ demands = [c \in 0..Len(coords) - 1 |-> IF c = 0 THEN 0 ELSE 1]
    /\ capacity = 3
    /\ pc = "start" /\ op = "none" /\ routes = <<>> /\ unvisited = {}
    /\ solution = Idle /\ result = Idle /\ k = 0 /\ best = Idle /\ best_cost = 0
    /\ iteration = 0 /\ last_improvement = 0 /\ tabu_skips = 0
    /\ tabu_list = Idle /\ max_iter = 0 /\ use_or_opt = FALSE /\ last = Idle
    /\ heap = Idle

RingSavings ==
    /\ pc = "start"
    /\ \E order \in savings_orders(savings_tuples(demands, dist)) :
          ConsReturns("Clarke-Wright",
                      savings_loop(savings_initial_routes(demands), order,
                                   demands, capacity))

RingNext == RingSavings

SpecRing == RingInit /\ [][RingNext]_vars

\* C14: for 5 customers on a ring around the depot, each of demand 1, and
\* capacity 3, savings_algorithm returns exactly 2 routes, each of total
\* demand <= 3, whatever the order in which equal savings are processed.
C14_RingTwoRoutes ==
    pc = "done" => (Len(routes) = 2 /\ Feasible(routes, demands, capacity))

\* a returned run that met equal savings in another order than (i, j)
\* descending, and so built other routes than that order builds
C14_Witness ==
    /\ pc = "done" /\ op = "Clarke-Wright"
    /\ Len(routes) = 2 /\ Covers(routes, demands)
    /\ routes # savings_algorithm(demands, capacity, dist)

(***************************************************************************)
(* VND step by step (SpecVND): result is the working copy sol, k the index *)
(* into neighborhoods, one action per pass of the while loop.  last keeps  *)
(* what the passes did: the neighbourhood and outcome of the last pass,    *)
(* the neighbourhoods rejected in a row since the last acceptance, and the *)
(* neighbourhoods accepted so far.                                         *)
(***************************************************************************)
VNDInit ==
    /\ \E inst \in OpsInstances :
          /\ demands = DemandsOf(inst.demands)
          /\ capacity = inst.capacity
          /\ dist = compute_distance_matrix(inst.coords)
          /\ solution \in AllSolutions(1..Len(inst.coords) - 1)
    /\ use_or_opt \in BOOLEAN
    /\ pc = "called" /\ op = "VND" /\ result = Idle /\ k = 0
    /\ routes = Idle /\ unvisited = Idle /\ best = Idle /\ best_cost = 0
    /\ iteration = 0 /\ last_improvement = 0 /\ tabu_skips = 0
    /\ tabu_list = Idle /\ max_iter = 0
    /\ last = [name |-> "none", outcome |-> "none", tried |-> <<>>, accepts |-> <<>>]
    /\ heap = Idle

VNDFrame ==
    UNCHANGED <<demands, capacity, dist, heap, op, solution, routes, unvisited, best,
                best_cost, iteration, last_improvement, tabu_skips, tabu_list,
                max_iter, use_or_opt>>

\* sol = [r[:] for r in solution]; k = 0
VNDEnter ==
    /\ pc = "called"
    /\ pc' = "vnd" /\ result' = solution /\ k' = 0
    /\ UNCHANGED last
    /\ VNDFrame

\* one pass of while k < len(neighborhoods)
VNDPass ==
    /\ pc = "vnd"
    /\ k < Len(VND_neighborhoods(use_or_opt))
    /\ \E name \in {At(VND_neighborhoods(use_or_opt), k)} :
        \E sol_new \in {VND_call(name, result, demands, capacity, dist)} :
          \E taken \in {VND_accepts(solution_cost(result, dist), Len(result),
                                    solution_cost(sol_new, dist), Len(sol_new))} :
              /\ result' = IF taken THEN sol_new ELSE result
              /\ k' = VND_next_k(k, taken)
              /\ last' = [name |-> name,
                          outcome |-> IF taken THEN "accepted" ELSE "rejected",
                          tried |-> IF taken THEN <<>> ELSE Append(last.tried, name),
                          accepts |-> IF taken THEN Append(last.accepts, name)
                                      ELSE last.accepts]
    /\ UNCHANGED pc
    /\ VNDFrame

\* the while condition fails: return sol
VNDReturn ==
    /\ pc = "vnd"
    /\ ~(k < Len(VND_neighborhoods(use_or_opt)))
    /\ pc' = "returned"
    /\ UNCHANGED <<result, k, last>>
    /\ VNDFrame

VNDNext == VNDEnter \/ VNDPass \/ VNDReturn

SpecVND == VNDInit /\ [][VNDNext]_vars

\* VND is a sequential function: until it has returned it takes its next
\* step.  This is WF_vars(VNDNext) with ENABLED <<VNDNext>>_vars written out
\* as the state predicate it equals, pc # "returned".
VNDScheduling == []<>(pc = "returned") \/ []<><<VNDNext>>_vars

FairVND == VNDInit /\ [][VNDNext]_vars /\ WF_vars(VNDReturn) /\ VNDScheduling

\* the acceptance rule in the words of the claim: the result lowers the cost
\* by more than epsilon, or ties the cost with fewer routes
Improves(sol, sol_new) ==
    \/ solution_cost(sol_new, dist) < solution_cost(sol, dist) - EPS
    \/ /\ Abs(solution_cost(sol_new, dist) - solution_cost(sol, dist)) < EPS
       /\ Len(sol_new) < Len(sol)

Applied(i) ==
    VND_call(VND_neighborhoods(use_or_opt)[i], result, demands, capacity, dist)

\* C15: the neighbourhood index of VND starts at 0, goes back to 0 when the
\* result of the applied neighbourhood lowers the cost by more than epsilon
\* or ties the cost with fewer routes, and advances by one otherwise; VND
\* terminates on every input; and it returns only after every neighbourhood,
\* in the order N1, N5, N2, N3, N4 (then N6 if enabled), was applied in
\* succession to the returned solution without being accepted.
C15_VNDStateMachine ==
    /\ [][pc = "called" => (k' = 0 /\ result' = solution)]_vars
    /\ [][(pc = "vnd" /\ pc' = "vnd") =>
             IF Improves(result, Applied(k + 1))
             THEN k' = 0 /\ result' = Applied(k + 1)
             ELSE k' = k + 1 /\ result' = result]_vars
    /\ [](pc = "returned" =>
             /\ k = Len(VND_neighborhoods(use_or_opt))
             /\ last.tried = VND_neighborhoods(use_or_opt)
             /\ VND_neighborhoods(use_or_opt) =
                    IF use_or_opt THEN <<"N1", "N5", "N2", "N3", "N4", "N6">>
                    ELSE <<"N1", "N5", "N2", "N3", "N4">>
             /\ \A i \in 1..Len(VND_neighborhoods(use_or_opt)) :
                    ~Improves(result, Applied(i))
             /\ result = VND(solution, demands, capacity, dist, use_or_opt))
    /\ <>(pc = "returned")

\* a returned run with or-opt that restarted from a neighbourhood other than
\* the first before all six were rejected in a row
C15_Witness ==
    /\ pc = "returned" /\ use_or_opt
    /\ Len(last.accepts) >= 2
    /\ \E i \in 1..Len(last.accepts) : last.accepts[i] # "N1"
    /\ Len(last.tried) = 6

(***************************************************************************)
(* Claims about one pass of the search loop (SpecVNS).  last.shaken is the *)
(* candidate the pass shook out of best.                                   *)
(***************************************************************************)
\* a step that runs a pass of the loop whose shaken candidate is tabu
TabuHit ==
    /\ pc = "searching" /\ iteration' = iteration + 1
    /\ InList(solution_hash(last'.shaken), tabu_list)

\* C16: in an iteration where the fingerprint of the shaken candidate is in
\* the tabu list, VND is not run (the pass takes the skip branch), best,
\* best_cost, last_improvement and the tabu list are unchanged, tabu_skips
\* and iteration each increase by one, and k becomes k mod k_max + 1.
C16_TabuSkip ==
    [][TabuHit =>
          /\ last'.outcome = "tabu_skip"
          /\ best' = best /\ best_cost' = best_cost
          /\ last_improvement' = last_improvement
          /\ tabu_list' = tabu_list
          /\ tabu_skips' = tabu_skips + 1
          /\ iteration' = iteration + 1
          /\ k' = (k % K_MAX) + 1]_vars

\* after a skipped pass at k = k_max: the candidate is in the list, k is 1
C16_Witness ==
    /\ pc = "searching" /\ last.outcome = "tabu_skip"
    /\ InList(solution_hash(last.shaken), tabu_list)
    /\ tabu_skips >= 2 /\ k = 1 /\ iteration > last_improvement + 1

\* the candidate VND makes of the shaken solution of the pass just run
LocalOfPass == VND(last'.shaken, demands, capacity, dist, use_or_opt)

\* a step that runs a pass whose candidate is not tabu and is accepted
Accepting ==
    /\ pc = "searching" /\ iteration' = iteration + 1 /\ ~TabuHit
    /\ accept(solution_cost(LocalOfPass, dist), Len(LocalOfPass), best_cost, Len(best))

\* a step that runs a pass whose candidate is not tabu and is not accepted
Rejecting ==
    /\ pc = "searching" /\ iteration' = iteration + 1 /\ ~TabuHit
    /\ ~accept(solution_cost(LocalOfPass, dist), Len(LocalOfPass), best_cost, Len(best))

\* C17: in every state of the search loop k is in 1..k_max; on acceptance k
\* is reset to 1, the fingerprint of the accepted solution is appended to the
\* tabu list and last_improvement is set to the current iteration; on
\* rejection k becomes k mod k_max + 1 and best, best_cost and the tabu list
\* are unchanged; the shake operator of an iteration is the one at index
\* (k-1) mod 3 of (relocate, swap, reversal).
C17_ShakingStrength ==
    /\ [](pc = "searching" => k \in 1..K_MAX)
    /\ [][Accepting =>
             /\ k' = 1
             /\ best' = LocalOfPass
             /\ tabu_list' # <<>>
             /\ tabu_list'[Len(tabu_list')] = solution_hash(LocalOfPass)
             /\ last_improvement' = iteration]_vars
    /\ [][Rejecting =>
             /\ k' = (k % K_MAX) + 1
             /\ best' = best /\ best_cost' = best_cost
             /\ tabu_list' = tabu_list]_vars
    /\ [][(pc = "searching" /\ iteration' = iteration + 1) =>
             last'.shaken \in
                 CASE (k - 1) % 3 = 0 ->
                        Shake_N1_random_relocate(best, demands, capacity, k)
                   [] (k - 1) % 3 = 1 ->
                        Shake_N2_random_swap(best, demands, capacity, k)
                   [] (k - 1) % 3 = 2 ->
                        Shake_N3_double_bridge(best, demands, capacity, k)]_vars

\* a pass accepted after earlier passes were rejected or skipped, so that k
\* had grown and the shake was not the relocation
C17_Witness ==
    /\ pc = "searching" /\ last.outcome = "accepted" /\ k = 1
    /\ last_improvement >= 1 /\ iteration = last_improvement + 1
    /\ tabu_list # <<>>
    /\ tabu_list[Len(tabu_list)] = solution_hash(best)

(***************************************************************************)
(* _solution_hash on rearranged solutions (SpecHash): a solution, the same *)
(* routes in another order and some of them reversed, and the fingerprints *)
(* of both, kept in tabu_list.                                             *)
(***************************************************************************)
\* the routes of sol in the order p, those with an index in R reversed
Rearranged(sol, p, R) ==
    [i \in 1..Len(sol) |-> IF p[i] \in R THEN Rev(sol[p[i]]) ELSE sol[p[i]]]

Rearrangements(sol) ==
    {Rearranged(sol, p, R) : p \in Perms(1..Len(sol)), R \in SUBSET (1..Len(sol))}

HashInit ==
    /\ \E inst \in OpsInstances :
          /\ demands = DemandsOf(inst.demands)
          /\ capacity = inst.capacity
          /\ dist = compute_distance_matrix(inst.coords)
          /\ solution \in AllSolutions(1..Len(inst.coords) - 1)
    /\ pc = "input" /\ op = "none" /\ result = Idle /\ k = 0
    /\ routes = Idle /\ unvisited = Idle /\ best = Idle /\ best_cost = 0
    /\ iteration = 0 /\ last_improvement = 0 /\ tabu_skips = 0
    /\ tabu_list = <<>> /\ max_iter = 0 /\ use_or_opt = FALSE /\ last = Idle
    /\ heap = Idle

HashFrame ==
    UNCHANGED <<demands, capacity, dist, heap, op, solution, k, routes, unvisited, best,
                best_cost, iteration, last_improvement, tabu_skips, max_iter,
                use_or_opt, last>>

Rearrange ==
    /\ pc = "input"
    /\ result' \in Rearrangements(solution)
    /\ pc' = "rearranged"
    /\ UNCHANGED tabu_list
    /\ HashFrame

Fingerprint ==
    /\ pc = "rearranged"
    /\ tabu_list' = <<solution_hash(solution), solution_hash(result)>>
    /\ pc' = "hashed"
    /\ UNCHANGED result
    /\ HashFrame

HashNext == Rearrange \/ Fingerprint

SpecHash == HashInit /\ [][HashNext]_vars

\* C18: _solution_hash gives the same value for two solutions that differ
\* only in the order of their routes or in the direction in which one or
\* more routes are traversed.
C18_FingerprintCanonical ==
    pc = "hashed" => tabu_list[1] = tabu_list[2]

\* two routes met in the other order, one of them reversed into another list
C18_Witness ==
    /\ pc = "hashed" /\ Len(solution) >= 2
    /\ result[1] = Rev(solution[2]) /\ result[1] # solution[2]
    /\ result[2] = solution[1]
    /\ tabu_list[1] = solution_hash(solution)

(***************************************************************************)
(* The order of the tabu list (SpecTabu)                                   *)
(***************************************************************************)
\* C19: when inserting a fingerprint makes the tabu list longer than
\* tabu_tenure, exactly the oldest entry is removed, so that the list holds
\* the most recently accepted fingerprints in insertion order; a membership
\* hit neither reorders nor refreshes an entry.
C19_TabuFIFO ==
    /\ [][(pc = "searching" /\ last'.outcome = "accepted"
             /\ iteration' = iteration + 1) =>
             tabu_list' =
                 IF Len(tabu_list) + 1 > tabu_tenure(Length(demands))
                 THEN SubSeq(tabu_list, 2, Len(tabu_list)) \o <<solution_hash(best')>>
                 ELSE tabu_list \o <<solution_hash(best')>>]_vars
    /\ [][(pc = "searching" /\ iteration' = iteration + 1
             /\ InList(solution_hash(last'.shaken), tabu_list)) =>
             tabu_list' = tabu_list]_vars

\* the list is full, an entry was evicted, the two oldest entries differ and
\* a membership hit has happened
C19_Witness ==
    /\ Len(tabu_list) = tabu_tenure(Length(demands))
    /\ iteration > tabu_tenure(Length(demands)) + 1
    /\ tabu_skips >= 1
    /\ tabu_list[1] # tabu_list[2]
    /\ last.outcome = "accepted"

(***************************************************************************)
(* The operators on list objects.  A solution is a list of route lists: an *)
(* object of cells is the content of one list, a route (its nodes) or an   *)
(* outer list (the identities of its routes), and sol is the identity of   *)
(* the outer list a local variable is bound to.  Every statement that      *)
(* writes a list is one of four moves: an in-place write of a route, an    *)
(* item assignment on the outer list, a fresh list bound to the variable,  *)
(* and the copy each operator starts with.                                 *)
(***************************************************************************)
Routes(h) == [i \in 1..Len(h.cells[h.sol]) |-> h.cells[h.cells[h.sol][i]]]

\* a slip of the copy: the operator works on the list it was passed
copy_alias(h) == h

\* sol = [r[:] for r in solution]
copy_routes(h) ==
    [cells |-> h.cells \o Routes(h)
                 \o <<[i \in 1..Len(h.cells[h.sol]) |-> Len(h.cells) + i]>>,
     sol |-> Len(h.cells) + Len(h.cells[h.sol]) + 1]

\* sol[idx].pop(c), sol[idx].insert(pos, x), sol[idx][c] = x, del sol[idx][a:b]
list_write(h, idx, value) == [h EXCEPT !.cells[At(h.cells[h.sol], idx)] = value]

\* sol[idx] = value, value a list built by the right-hand side
item_assign(h, idx, value) ==
    [h EXCEPT !.cells = [Append(h.cells, value) EXCEPT
                            ![h.sol] = SetAt(h.cells[h.sol], idx, Len(h.cells) + 1)]]

\* sol = [r for r in sol if len(r) > 2]
keep_nonempty(h) ==
    [cells |-> Append(h.cells,
                      SelectSeq(h.cells[h.sol], LAMBDA id : Len(h.cells[id]) > 2)),
     sol |-> Len(h.cells) + 1]

N1_heap_move(h, m) ==
    item_assign(h, m[1], N1_reverse(At(Routes(h), m[1]), m[2], m[3]))

RECURSIVE N1_heap_loop(_, _)
N1_heap_loop(h, d) ==
    IF N1_improving(Routes(h), d) = {} THEN h
    ELSE N1_heap_loop(N1_heap_move(h, First(N1_improving(Routes(h), d))), d)

N1_heap(h, d) == N1_heap_loop(copy_routes(h), d)

N2_heap_pop(h, m) == list_write(h, m[1], Pop(At(Routes(h), m[1]), m[2]))

N2_heap_move(h, m) ==
    keep_nonempty(list_write(N2_heap_pop(h, m), m[3],
                             Insert(At(Routes(N2_heap_pop(h, m)), m[3]), m[4],
                                    At(At(Routes(h), m[1]), m[2]))))

N2_heap_best_move(h, dem, cap, d) ==
    BestOfPass(N2_scan(Routes(h), dem, cap), LAMBDA m : N2_delta(Routes(h), m, d))

RECURSIVE N2_heap_loop(_, _, _, _)
N2_heap_loop(h, dem, cap, d) ==
    IF N2_heap_best_move(h, dem, cap, d) = <<>> THEN h
    ELSE N2_heap_loop(N2_heap_move(h, N2_heap_best_move(h, dem, cap, d)), dem, cap, d)

N2_heap(h, dem, cap, d) == N2_heap_loop(copy_routes(h), dem, cap, d)

N3_heap_first(h, m) ==
    list_write(h, m[1], SetAt(At(Routes(h), m[1]), m[2], At(At(Routes(h), m[3]), m[4])))

N3_heap_move(h, m) ==
    list_write(N3_heap_first(h, m), m[3],
               SetAt(At(Routes(N3_heap_first(h, m)), m[3]), m[4],
                     At(At(Routes(h), m[1]), m[2])))

N3_heap_best_move(h, dem, cap, d) ==
    BestOfPass(N3_scan(Routes(h), dem, cap), LAMBDA m : N3_delta(Routes(h), m, d))

RECURSIVE N3_heap_loop(_, _, _, _)
N3_heap_loop(h, dem, cap, d) ==
    IF N3_heap_best_move(h, dem, cap, d) = <<>> THEN h
    ELSE N3_heap_loop(N3_heap_move(h, N3_heap_best_move(h, dem, cap, d)), dem, cap, d)

N3_heap(h, dem, cap, d) == N3_heap_loop(copy_routes(h), dem, cap, d)

\* new_sol = [r[:] for r in best_sol]; new_sol[r1_idx] = new_r1;
\* new_sol[r2_idx] = new_r2; best_sol = new_sol
N4_heap_move(h, m) ==
    item_assign(item_assign(copy_routes(h), m[1], N4_new_r1(Routes(h), m)),
                m[2], N4_new_r2(Routes(h), m))

RECURSIVE N4_heap_loop(_, _, _, _)
N4_heap_loop(h, dem, cap, d) ==
    IF N4_improving(Routes(h), dem, cap, d) = {} THEN h
    ELSE N4_heap_loop(N4_heap_move(h, First(N4_improving(Routes(h), dem, cap, d))),
                      dem, cap, d)

N4_heap(h, dem, cap, d) == N4_heap_loop(copy_routes(h), dem, cap, d)

\* new_sol = [route for idx, route in enumerate(sol) if idx != r1_idx and
\* idx != r2_idx]; new_sol.append(merged); sol = new_sol
N5_heap_move(h, m) ==
    [cells |-> h.cells \o <<N5_merged(Routes(h), m),
                            Append(Pop(Pop(h.cells[h.sol], m[2]), m[1]),
                                   Len(h.cells) + 1)>>,
     sol |-> Len(h.cells) + 2]

N5_heap_best_merge(h, dem, cap, d) ==
    BestOfPass(N5_scan(Routes(h), dem, cap), LAMBDA m : N5_delta(Routes(h), m, d))

RECURSIVE N5_heap_loop(_, _, _, _)
N5_heap_loop(h, dem, cap, d) ==
    IF N5_heap_best_merge(h, dem, cap, d) = <<>> THEN h
    ELSE N5_heap_loop(N5_heap_move(h, N5_heap_best_merge(h, dem, cap, d)), dem, cap, d)

N5_heap(h, dem, cap, d) == N5_heap_loop(copy_routes(h), dem, cap, d)

N6_heap_cut(h, m) == list_write(h, m[3], DelChain(At(Routes(h), m[3]), m[4], m[1]))

N6_heap_move(h, m) ==
    IF m[2] = 0
    THEN list_write(N6_heap_cut(h, m), m[3],
                    InsertChain(At(Routes(N6_heap_cut(h, m)), m[3]),
                                IF m[5] > m[4] THEN m[5] - m[1] ELSE m[5],
                                N6_chain(Routes(h), m)))
    ELSE keep_nonempty(list_write(N6_heap_cut(h, m), m[5],
                                  InsertChain(At(Routes(N6_heap_cut(h, m)), m[5]), m[6],
                                              N6_chain(Routes(h), m))))

N6_heap_best_move(h, dem, cap, d) ==
    BestOfPass(N6_scan(Routes(h), dem, cap), LAMBDA m : N6_delta(Routes(h), m, d))

RECURSIVE N6_heap_loop(_, _, _, _)
N6_heap_loop(h, dem, cap, d) ==
    IF N6_heap_best_move(h, dem, cap, d) = <<>> THEN h
    ELSE N6_heap_loop(N6_heap_move(h, N6_heap_best_move(h, dem, cap, d)), dem, cap, d)

N6_heap(h, dem, cap, d) == N6_heap_loop(copy_routes(h), dem, cap, d)

Shake_N1_heap_pop(h, r1, c) == list_write(h, r1, Pop(At(Routes(h), r1), c))

Shake_N1_heap_move(h, r1, c, r2, pos) ==
    list_write(Shake_N1_heap_pop(h, r1, c), r2,
               Insert(At(Routes(Shake_N1_heap_pop(h, r1, c)), r2), pos,
                      At(At(Routes(h), r1), c)))

Shake_N1_heap_attempt(h, dem, cap) ==
    IF Len(Routes(h)) < 2 \/ ValidRoutes(Routes(h), 2) = {} THEN {h}
    ELSE UNION {UNION {UNION {
             IF Shake_N1_fits(Routes(h), r2, At(At(Routes(h), r1), c), dem, cap)
             THEN {Shake_N1_heap_move(h, r1, c, r2, pos) :
                      pos \in 1..Len(At(Routes(Shake_N1_heap_pop(h, r1, c)), r2)) - 1}
             ELSE {h}
             : r2 \in Shake_N1_destinations(Routes(h), r1)}
             : c \in 1..Len(At(Routes(h), r1)) - 2}
             : r1 \in ValidRoutes(Routes(h), 2)}

RECURSIVE Shake_N1_heap_loop(_, _, _, _)
Shake_N1_heap_loop(H, dem, cap, n) ==
    IF n = 0 THEN H
    ELSE Shake_N1_heap_loop(UNION {Shake_N1_heap_attempt(h, dem, cap) : h \in H},
                            dem, cap, n - 1)

Shake_N1_heap(h, dem, cap, kk) ==
    {keep_nonempty(s) : s \in Shake_N1_heap_loop({copy_routes(h)}, dem, cap, kk)}

Shake_N2_heap_first(h, r1, c1, r2, c2) ==
    list_write(h, r1, SetAt(At(Routes(h), r1), c1, At(At(Routes(h), r2), c2)))

Shake_N2_heap_move(h, r1, c1, r2, c2) ==
    list_write(Shake_N2_heap_first(h, r1, c1, r2, c2), r2,
               SetAt(At(Routes(Shake_N2_heap_first(h, r1, c1, r2, c2)), r2), c2,
                     At(At(Routes(h), r1), c1)))

Shake_N2_heap_attempt(h, dem, cap) ==
    IF Len(Routes(h)) < 2 \/ Cardinality(ValidRoutes(Routes(h), 2)) < 2 THEN {h}
    ELSE UNION {UNION {
             {IF Shake_N2_fits(Routes(h), r1, c1, r2, c2, dem, cap)
              THEN Shake_N2_heap_move(h, r1, c1, r2, c2) ELSE h
              : c1 \in 1..Len(At(Routes(h), r1)) - 2,
                c2 \in 1..Len(At(Routes(h), r2)) - 2}
             : r2 \in ValidRoutes(Routes(h), 2) \ {r1}}
             : r1 \in ValidRoutes(Routes(h), 2)}

RECURSIVE Shake_N2_heap_loop(_, _, _, _)
Shake_N2_heap_loop(H, dem, cap, n) ==
    IF n = 0 THEN H
    ELSE Shake_N2_heap_loop(UNION {Shake_N2_heap_attempt(h, dem, cap) : h \in H},
                            dem, cap, n - 1)

Shake_N2_heap(h, dem, cap, kk) == Shake_N2_heap_loop({copy_routes(h)}, dem, cap, kk)

Shake_N3_heap_attempt(h) ==
    IF ValidRoutes(Routes(h), 4) = {} THEN {h}
    ELSE UNION {UNION {
             {item_assign(h, r, Shake_N3_reverse(At(Routes(h), r), i, j))
              : j \in i + 1..Len(At(Routes(h), r)) - 2}
             : i \in 1..Len(At(Routes(h), r)) - 3}
             : r \in ValidRoutes(Routes(h), 4)}

RECURSIVE Shake_N3_heap_loop(_, _)
Shake_N3_heap_loop(H, n) ==
    IF n = 0 THEN H
    ELSE Shake_N3_heap_loop(UNION {Shake_N3_heap_attempt(h) : h \in H}, n - 1)

Shake_N3_heap(h, dem, cap, kk) == Shake_N3_heap_loop({copy_routes(h)}, kk)

\* sol_new = func(sol, ...): the callee returns the list it built, and what
\* it wrote to the objects it was passed stays written
VND_heap_call(name, h, dem, cap, d) ==
    CASE name = "N1" -> N1_heap(h, d)
      [] name = "N5" -> N5_heap(h, dem, cap, d)
      [] name = "N2" -> N2_heap(h, dem, cap, d)
      [] name = "N3" -> N3_heap(h, dem, cap, d)
      [] name = "N4" -> N4_heap(h, dem, cap, d)
      [] name = "N6" -> N6_heap(h, dem, cap, d)

\* cost_improved or routes_reduced, of the list the callee returned
VND_heap_accepts(h, called, d) ==
    VND_accepts(solution_cost(Routes(h), d), Len(Routes(h)),
                solution_cost(Routes(called), d), Len(Routes(called)))

RECURSIVE VND_heap_loop(_, _, _, _, _, _)
VND_heap_loop(h, idx, dem, cap, d, or_opt) ==
    IF ~(idx < Len(VND_neighborhoods(or_opt))) THEN h
    ELSE LET called == VND_heap_call(At(VND_neighborhoods(or_opt), idx), h, dem, cap, d)
             taken == VND_heap_accepts(h, called, d)
         IN  VND_heap_loop([cells |-> called.cells,
                            sol |-> IF taken THEN called.sol ELSE h.sol],
                           VND_next_k(idx, taken), dem, cap, d, or_opt)

VND_heap(h, dem, cap, d, or_opt) == VND_heap_loop(copy_routes(h), 0, dem, cap, d, or_opt)

(***************************************************************************)
(* Calls on list objects (SpecAlias).  The caller holds a solution, whose  *)
(* objects are the first of the heap, and passes it to a neighbourhood     *)
(* operator, to VND or to a shaking operator; after a shake it goes on as  *)
(* a pass of VNS_solver does: VND on the shaken list, then the acceptance  *)
(* test.  solution is the value the caller started with, best the value of *)
(* the list its variable best is bound to, result the value of the list    *)
(* the last call returned, and last the value passed to the last call.     *)
(***************************************************************************)
ValueAt(cells, ref) == Routes([cells |-> cells, sol |-> ref])

InputObjects(sol) == sol \o <<[i \in 1..Len(sol) |-> i]>>

\* the instances of a call: the inputs are the ways to cut a tour that starts
\* at customer 1 into routes
AliasInstances ==
    { [coords |-> <<0, 30000, 60000, -40000, -20000>>,
       demands |-> <<0, 1, 1, 1, 1>>, capacity |-> 4, or_opt |-> TRUE],
      [coords |-> <<0, 50000, -30000, 20000, 80000>>,
       demands |-> <<0, 2, 1, 2, 1>>, capacity |-> 3, or_opt |-> FALSE] }

AliasSolutions(S) == UNION {Splits(p) : p \in {q \in Perms(S) : q[1] = 1}}

AliasInit ==
    /\ \E inst \in AliasInstances :
          /\ demands = DemandsOf(inst.demands)
          /\ capacity = inst.capacity
          /\ dist = compute_distance_matrix(inst.coords)
          /\ use_or_opt = inst.or_opt
          /\ solution \in AliasSolutions(1..Len(inst.coords) - 1)
    /\ heap = [cells |-> InputObjects(solution), best |-> Len(solution) + 1,
               passed |-> Len(solution) + 1, returned |-> Len(solution) + 1]
    /\ pc = "input" /\ op = "none" /\ result = solution /\ k = 0
    /\ best = solution /\ best_cost = solution_cost(solution, dist)
    /\ last = solution
    /\ routes = Idle /\ unvisited = Idle
    /\ iteration = 0 /\ last_improvement = 0 /\ tabu_skips = 0
    /\ tabu_list = Idle /\ max_iter = 0

AliasFrame ==
    UNCHANGED <<demands, capacity, dist, solution, routes, unvisited, iteration,
                last_improvement, tabu_skips, tabu_list, max_iter, use_or_opt>>

\* the call of an operator on the list at ref: out is what the operator
\* leaves, the heap and the list it returns
Called(name, to, ref, out) ==
    /\ pc' = to /\ op' = name
    /\ heap' = [heap EXCEPT !.cells = out.cells, !.passed = ref, !.returned = out.sol]
    /\ last' = ValueAt(heap.cells, ref)
    /\ result' = Routes(out)
    /\ best' = ValueAt(out.cells, heap.best)
    /\ UNCHANGED best_cost
    /\ AliasFrame

Argument(ref) == [cells |-> heap.cells, sol |-> ref]

CallN1 ==
    /\ pc = "input"
    /\ \E out \in {N1_heap(Argument(heap.best), dist)} :
          Called("N1", "returned", heap.best, out) /\ k' = 0
CallN2 ==
    /\ pc = "input"
    /\ \E out \in {N2_heap(Argument(heap.best), demands, capacity, dist)} :
          Called("N2", "returned", heap.best, out) /\ k' = 0
CallN3 ==
    /\ pc = "input"
    /\ \E out \in {N3_heap(Argument(heap.best), demands, capacity, dist)} :
          Called("N3", "returned", heap.best, out) /\ k' = 0
CallN4 ==
    /\ pc = "input"
    /\ \E out \in {N4_heap(Argument(heap.best), demands, capacity, dist)} :
          Called("N4", "returned", heap.best, out) /\ k' = 0
CallN5 ==
    /\ pc = "input"
    /\ \E out \in {N5_heap(Argument(heap.best), demands, capacity, dist)} :
          Called("N5", "returned", heap.best, out) /\ k' = 0
CallN6 ==
    /\ pc = "input"
    /\ \E out \in {N6_heap(Argument(heap.best), demands, capacity, dist)} :
          Called("N6", "returned", heap.best, out) /\ k' = 0
CallVND ==
    /\ pc = "input"
    /\ \E out \in {VND_heap(Argument(heap.best), demands, capacity, dist, use_or_opt)} :
          Called("VND", "returned", heap.best, out) /\ k' = 0

\* s_shaken = shake_func(best, demands, capacity, k)
CallShakeN1 ==
    /\ pc = "input"
    /\ \E kk \in 1..MaxK :
          \E out \in Shake_N1_heap(Argument(heap.best), demands, capacity, kk) :
              Called("Shake_N1", "shaken", heap.best, out) /\ k' = kk
CallShakeN2 ==
    /\ pc = "input"
    /\ \E kk \in 1..MaxK :
          \E out \in Shake_N2_heap(Argument(heap.best), demands, capacity, kk) :
              Called("Shake_N2", "shaken", heap.best, out) /\ k' = kk
CallShakeN3 ==
    /\ pc = "input"
    /\ \E kk \in 1..MaxK :
          \E out \in Shake_N3_heap(Argument(heap.best), demands, capacity, kk) :
              Called("Shake_N3", "shaken", heap.best, out) /\ k' = kk

\* s_local = VND(s_shaken, demands, capacity, dist, use_or_opt=use_or_opt)
LocalSearch ==
    /\ pc = "shaken"
    /\ \E out \in {VND_heap(Argument(heap.returned), demands, capacity, dist,
                            use_or_opt)} :
          Called(op, "descended", heap.returned, out) /\ k' = k

\* deepcopy(s_local): fresh routes and a fresh outer list
deepcopy(h) == copy_routes(h)

\* if accept: best = deepcopy(s_local); best_cost = cost_local
AcceptLocal ==
    /\ pc = "descended"
    /\ accept(solution_cost(result, dist), Len(result), best_cost, Len(best))
    /\ \E out \in {deepcopy(Argument(heap.returned))} :
          /\ heap' = [heap EXCEPT !.cells = out.cells, !.best = out.sol]
          /\ best' = Routes(out)
    /\ best_cost' = solution_cost(result, dist)
    /\ pc' = "accepted" /\ k' = 1
    /\ UNCHANGED <<op, result, last>>
    /\ AliasFrame

\* else: k = k % k_max + 1
RejectLocal ==
    /\ pc = "descended"
    /\ ~accept(solution_cost(result, dist), Len(result), best_cost, Len(best))
    /\ pc' = "rejected" /\ k' = (k % K_MAX) + 1
    /\ UNCHANGED <<op, result, last, heap, best, best_cost>>
    /\ AliasFrame

AliasNext ==
    \/ CallN1 \/ CallN2 \/ CallN3 \/ CallN4 \/ CallN5 \/ CallN6 \/ CallVND
    \/ CallShakeN1 \/ CallShakeN2 \/ CallShakeN3
    \/ LocalSearch \/ AcceptLocal \/ RejectLocal

SpecAlias == AliasInit /\ [][AliasNext]_vars

HeapAgreesWithValues ==
    /\ (pc = "returned" /\ op = "N1") => result = N1_two_opt_intra(solution, dist)
    /\ (pc = "returned" /\ op = "N2")
           => result = N2_relocate_inter(solution, demands, capacity, dist)
    /\ (pc = "returned" /\ op = "N3")
           => result = N3_swap_inter(solution, demands, capacity, dist)
    /\ (pc = "returned" /\ op = "N4")
           => result = N4_two_opt_inter(solution, demands, capacity, dist)
    /\ (pc = "returned" /\ op = "N5")
           => result = N5_merge_routes(solution, demands, capacity, dist)
    /\ (pc = "returned" /\ op = "N6") => result = N6_or_opt(solution, demands, capacity, dist)
    /\ (pc = "returned" /\ op = "VND")
           => result = VND(solution, demands, capacity, dist, use_or_opt)
    /\ (pc = "shaken" /\ op = "Shake_N1")
           => result \in Shake_N1_random_relocate(solution, demands, capacity, k)
    /\ (pc = "shaken" /\ op = "Shake_N2")
           => result \in Shake_N2_random_swap(solution, demands, capacity, k)
    /\ (pc = "shaken" /\ op = "Shake_N3")
           => result \in Shake_N3_double_bridge(solution, demands, capacity, k)
    /\ pc = "descended" => result = VND(last, demands, capacity, dist, use_or_opt)

\* C20: copy-on-call.  No list the caller passes is written by the operator
\* it is passed to: the objects of the caller's solution (its route lists and
\* its outer list) hold in every state what they held at the start, and
\* after each call of N1..N6, of a shaking operator or of VND the list that
\* was passed has the value it had before the call.  The caller's best keeps
\* its value through the shake and through VND on the shaken list, and a step
\* changes it only by accepting.
C20_CopyOnCall ==
    /\ [](SubSeq(heap.cells, 1, Len(solution) + 1) = InputObjects(solution))
    /\ [](pc \in {"returned", "shaken", "descended", "accepted", "rejected"}
             => ValueAt(heap.cells, heap.passed) = last)
    /\ [](pc \in {"returned", "shaken", "descended", "rejected"} => best = solution)
    /\ [][best' # best => (pc = "descended" /\ pc' = "accepted" /\ best' = result)]_vars

C20_Witness ==
    /\ pc = "accepted" /\ op = "Shake_N1"
    /\ last # solution /\ result # last
    /\ best = result /\ best # solution
    /\ heap.best # heap.returned
    /\ ValueAt(heap.cells, Len(solution) + 1) = solution

(***************************************************************************)
(* The best-of-pass operators pass by pass (SpecPass): N2, N5 and N6 from  *)
(* the copy of the input to the return, one action per pass of the outer   *)
(* while loop.  result is the local sol, k the number of passes that       *)
(* applied a move, and last the move of the last pass, its delta and the   *)
(* solution it was applied to.  Beside the instances of SpecOps there is a *)
(* planar one, five customers of demand 1 on one route.                    *)
(***************************************************************************)
PlanarCoords ==
    << <<0, 0>>, <<5000, 15000>>, <<-15000, 15000>>, <<10000, 5000>>,
       <<-10000, -15000>>, <<-5000, 0>> >>

Tours(S) == {<<<<0>> \o p \o <<0>>>> : p \in Perms(S)}

PassInstances ==
    { [demands |-> inst.demands, capacity |-> inst.capacity,
       dist |-> compute_distance_matrix(inst.coords),
       solutions |-> AllSolutions(1..Len(inst.coords) - 1)] : inst \in OpsInstances }
    \cup
    { [demands |-> <<0, 1, 1, 1, 1, 1>>, capacity |-> 5,
       dist |-> compute_distance_matrix_2d(PlanarCoords),
       solutions |-> Tours(1..Len(PlanarCoords) - 1)] }

PassInit ==
    /\ \E inst \in PassInstances :
          /\ demands = DemandsOf(inst.demands)
          /\ capacity = inst.capacity
          /\ dist = inst.dist
          /\ solution \in inst.solutions
    /\ pc = "called" /\ op = "none" /\ result = Idle /\ k = 0
    /\ routes = Idle /\ unvisited = Idle /\ best = Idle /\ best_cost = 0
    /\ iteration = 0 /\ last_improvement = 0 /\ tabu_skips = 0
    /\ tabu_list = Idle /\ max_iter = 0 /\ use_or_opt = FALSE
    /\ last = [move |-> <<>>, delta |-> 0, before |-> Idle]
    /\ heap = Idle

PassFrame ==
    UNCHANGED <<demands, capacity, dist, heap, solution, routes, unvisited, best,
                best_cost, iteration, last_improvement, tabu_skips, tabu_list,
                max_iter, use_or_opt>>

\* sol = [r[:] for r in solution]
PassEnter ==
    /\ pc = "called"
    /\ op' \in {"N2", "N5", "N6"}
    /\ pc' = "scanning" /\ result' = solution
    /\ UNCHANGED <<k, last>>
    /\ PassFrame

\* if best_move: the move is applied and the loop goes on
Applies(move, delta, sol_new) ==
    /\ move # <<>>
    /\ result' = sol_new
    /\ last' = [move |-> move, delta |-> delta, before |-> result]
    /\ k' = k + 1
    /\ UNCHANGED <<pc, op>>
    /\ PassFrame

\* best_move is None: improved stays False and the operator returns sol
Leaves(move) ==
    /\ move = <<>>
    /\ pc' = "returned"
    /\ UNCHANGED <<op, result, k, last>>
    /\ PassFrame

N2_best_move(sol, dem, cap, d) ==
    BestOfPass(N2_scan(sol, dem, cap), LAMBDA m : N2_delta(sol, m, d))

N5_best_merge(sol, dem, cap, d) ==
    BestOfPass(N5_scan(sol, dem, cap), LAMBDA m : N5_delta(sol, m, d))

N6_best_move(sol, dem, cap, d) ==
    BestOfPass(N6_scan(sol, dem, cap), LAMBDA m : N6_delta(sol, m, d))

N2Pass ==
    /\ pc = "scanning" /\ op = "N2"
    /\ \E m \in {N2_best_move(result, demands, capacity, dist)} :
          /\ m # <<>>
          /\ Applies(m, N2_delta(result, m, dist), N2_apply(result, m))
N2Return ==
    /\ pc = "scanning" /\ op = "N2"
    /\ Leaves(N2_best_move(result, demands, capacity, dist))
N5Pass ==
    /\ pc = "scanning" /\ op = "N5"
    /\ \E m \in {N5_best_merge(result, demands, capacity, dist)} :
          /\ m # <<>>
          /\ Applies(m, N5_delta(result, m, dist), N5_apply(result, m))
N5Return ==
    /\ pc = "scanning" /\ op = "N5"
    /\ Leaves(N5_best_merge(result, demands, capacity, dist))
N6Pass ==
    /\ pc = "scanning" /\ op = "N6"
    /\ \E m \in {N6_best_move(result, demands, capacity, dist)} :
          /\ m # <<>>
          /\ Applies(m, N6_delta(result, m, dist), N6_apply(result, m))
N6Return ==
    /\ pc = "scanning" /\ op = "N6"
    /\ Leaves(N6_best_move(result, demands, capacity, dist))

PassNext ==
    \/ PassEnter \/ N2Pass \/ N2Return \/ N5Pass \/ N5Return \/ N6Pass \/ N6Return

SpecPass == PassInit /\ [][PassNext]_vars

PassAgreesWithOperators ==
    pc = "returned" =>
        result = CASE op = "N2" -> N2_relocate_inter(solution, demands, capacity, dist)
                   [] op = "N5" -> N5_merge_routes(solution, demands, capacity, dist)
                   [] op = "N6" -> N6_or_opt(solution, demands, capacity, dist)

\* every move of one customer (route r1, index c) to a position pos of
\* another route r2 that has room for it, as <<r1, c, r2, pos>>
Relocations(sol, dem, cap) ==
    {m \in (0..Len(sol) - 1) \X (1..Length(dem)) \X (0..Len(sol) - 1) \X (1..Length(dem)) :
        /\ m[1] # m[3]
        /\ m[2] <= Len(At(sol, m[1])) - 2
        /\ m[4] <= Len(At(sol, m[3])) - 1
        /\ route_demand(At(sol, m[3]), dem) + dem[At(At(sol, m[1]), m[2])] <= cap}

\* the routes after the move, the emptied route still in place
Relocated(sol, m) ==
    [i \in 1..Len(sol) |->
        IF i = m[1] + 1 THEN SubSeq(sol[i], 1, m[2]) \o SubSeq(sol[i], m[2] + 2, Len(sol[i]))
        ELSE IF i = m[3] + 1
        THEN SubSeq(sol[i], 1, m[4]) \o <<sol[m[1] + 1][m[2] + 1]>>
             \o SubSeq(sol[i], m[4] + 1, Len(sol[i]))
        ELSE sol[i]]

RelocationGain(sol, m, d) == solution_cost(Relocated(sol, m), d) - solution_cost(sol, d)

\* C21: N2 is best-of-pass.  A pass of N2_relocate_inter that applies a move
\* applies one relocation of a customer into another route with room for it,
\* the one of least cost change among all of them and, among those of least
\* change, the first in loop order; the cost of the solution changes by
\* exactly the delta the scan computed, which is below the negated threshold;
\* and N2 returns only from a solution where no such relocation lowers the
\* cost by more than the threshold.
C21_N2BestOfPass ==
    /\ [][(pc = "scanning" /\ op = "N2" /\ k' = k + 1) =>
            /\ last'.before = result
            /\ last'.move \in Relocations(result, demands, capacity)
            /\ result' = SelectSeq(Relocated(result, last'.move), LAMBDA r : Len(r) > 2)
            /\ RelocationGain(result, last'.move, dist) = last'.delta
            /\ solution_cost(result', dist) = solution_cost(result, dist) + last'.delta
            /\ last'.delta < -IMPROVEMENT_THRESHOLD
            /\ \A o \in Relocations(result, demands, capacity) :
                  \/ RelocationGain(result, o, dist) > last'.delta
                  \/ /\ RelocationGain(result, o, dist) = last'.delta
                     /\ (o = last'.move \/ LexLess(last'.move, o))]_vars
    /\ [][(pc = "scanning" /\ op = "N2" /\ pc' = "returned") =>
            /\ result' = result
            /\ \A o \in Relocations(result, demands, capacity) :
                  ~(RelocationGain(result, o, dist) < -IMPROVEMENT_THRESHOLD)]_vars

C21_Witness ==
    /\ pc = "returned" /\ op = "N2" /\ k >= 2
    /\ Len(result) < Len(solution)
    /\ \E o \in Relocations(last.before, demands, capacity) :
          o # last.move /\ RelocationGain(last.before, o, dist) = last.delta

\* every move of a chain of 1, 2 or 3 consecutive customers of a route to
\* another place: <<r, start, len, r2, pos>>, the chain of route r that starts
\* at index start, put back after the first pos nodes of what is left of
\* route r (r2 = r, any place but the one it came from, the place before the
\* closing depot included) or of a route r2 with room for it
ChainCut(route, start, len) ==
    SubSeq(route, 1, start) \o SubSeq(route, start + len + 1, Len(route))

ChainOf(route, start, len) == SubSeq(route, start + 1, start + len)

ChainRelocations(sol, dem, cap) ==
    {m \in (0..Len(sol) - 1) \X (1..Length(dem)) \X {1, 2, 3}
              \X (0..Len(sol) - 1) \X (1..Length(dem)) :
        /\ m[2] + m[3] <= Len(At(sol, m[1])) - 1
        /\ IF m[4] = m[1]
           THEN m[5] <= Len(At(sol, m[1])) - m[3] - 1 /\ m[5] # m[2]
           ELSE /\ m[5] <= Len(At(sol, m[4])) - 1
                /\ route_demand(At(sol, m[4]), dem)
                   + route_demand(ChainOf(At(sol, m[1]), m[2], m[3]), dem) <= cap}

ChainRelocated(sol, m) ==
    [i \in 1..Len(sol) |->
        IF i = m[4] + 1
        THEN SubSeq(IF m[4] = m[1] THEN ChainCut(sol[i], m[2], m[3]) ELSE sol[i], 1, m[5])
             \o ChainOf(sol[m[1] + 1], m[2], m[3])
             \o SubSeq(IF m[4] = m[1] THEN ChainCut(sol[i], m[2], m[3]) ELSE sol[i],
                       m[5] + 1,
                       Len(IF m[4] = m[1] THEN ChainCut(sol[i], m[2], m[3]) ELSE sol[i]))
        ELSE IF i = m[1] + 1 THEN ChainCut(sol[i], m[2], m[3])
        ELSE sol[i]]

ChainGain(sol, m, d) == solution_cost(ChainRelocated(sol, m), d) - solution_cost(sol, d)

\* C22: N6 returns a local optimum of the chain relocations.  The solution
\* N6_or_opt returns admits no move of a chain of 1, 2 or 3 consecutive
\* customers, within its route (the place before the closing depot included)
\* or into another route with room for it, that lowers the cost by more than
\* the improvement threshold.
C22_N6LocalOptimum ==
    (pc = "returned" /\ op = "N6") =>
        \A m \in ChainRelocations(result, demands, capacity) :
            ~(ChainGain(result, m, dist) < -IMPROVEMENT_THRESHOLD)

\* the pairs of routes whose demands together fit the capacity, and the four
\* ways to join the customers of two routes into one route
MergePairs(sol, dem, cap) ==
    {p \in (1..Len(sol)) \X (1..Len(sol)) :
        /\ p[1] < p[2]
        /\ route_demand(sol[p[1]], dem) + route_demand(sol[p[2]], dem) <= cap}

Joins(ra, rb) ==
    { <<0>> \o Interior(ra) \o Interior(rb) \o <<0>>,
      <<0>> \o Interior(rb) \o Interior(ra) \o <<0>>,
      <<0>> \o Interior(ra) \o Rev(Interior(rb)) \o <<0>>,
      <<0>> \o Interior(rb) \o Rev(Interior(ra)) \o <<0>> }

JoinGain(sol, p, joined, d) ==
    route_cost(joined, d) - route_cost(sol[p[1]], d) - route_cost(sol[p[2]], d)

Mergeable(sol, dem, cap, d) ==
    \E p \in MergePairs(sol, dem, cap) :
        \E joined \in Joins(sol[p[1]], sol[p[2]]) :
            JoinGain(sol, p, joined, d) < -IMPROVEMENT_THRESHOLD

Others(sol, p) ==
    SubSeq(sol, 1, p[1] - 1) \o SubSeq(sol, p[1] + 1, p[2] - 1)
    \o SubSeq(sol, p[2] + 1, Len(sol))

\* C23: N5 merges.  From a solution with two routes whose demands together
\* fit the capacity and one of whose four joins lowers the cost by more than
\* the threshold, a pass of N5_merge_routes merges; a merge replaces two
\* such routes by one route that holds exactly their customers and leaves
\* the other routes as they are; and the solution N5 returns has no such
\* pair of routes.
C23_N5Merges ==
    /\ [][(pc = "scanning" /\ op = "N5" /\ Mergeable(result, demands, capacity, dist))
             => k' = k + 1]_vars
    /\ [][(pc = "scanning" /\ op = "N5" /\ k' = k + 1) =>
            /\ Len(result') = Len(result) - 1
            /\ \E p \in MergePairs(result, demands, capacity) :
                  /\ result' = Append(Others(result, p), result'[Len(result')])
                  /\ result'[Len(result')] \in Joins(result[p[1]], result[p[2]])
                  /\ JoinGain(result, p, result'[Len(result')], dist)
                         < -IMPROVEMENT_THRESHOLD
                  /\ \A c \in Customers(demands) :
                        Visits(<<result'[Len(result')]>>, c)
                            = Visits(<<result[p[1]], result[p[2]]>>, c)]_vars
    /\ [](pc = "returned" /\ op = "N5" => ~Mergeable(result, demands, capacity, dist))

C23_Witness ==
    /\ pc = "returned" /\ op = "N5" /\ k >= 1
    /\ Len(result) >= 2 /\ Len(result) = Len(solution) - k
    /\ \E p \in MergePairs(last.before, demands, capacity) :
          /\ result[Len(result)] \in Joins(last.before[p[1]], last.before[p[2]])
          /\ route_demand(result[Len(result)], demands) = capacity

\* C24: routes stay well-formed.  Given a solution whose routes all start
\* and end at the depot, hold one customer or more and have no depot inside,
\* every route of the solution returned by a neighbourhood operator N1..N6 or
\* by a shaking operator starts with 0, ends with 0, has no 0 inside and
\* holds one customer or more: a route [0, 0] is never returned.
C24_RoutesWellFormed ==
    (pc = "returned" /\ op \in Neighbourhoods \cup Shakes /\ WellFormed(solution))
        => \A i \in 1..Len(result) :
              /\ Len(result[i]) >= 3
              /\ Head(result[i]) = 0 /\ result[i][Len(result[i])] = 0
              /\ \A p \in 2..Len(result[i]) - 1 : result[i][p] \in Customers(demands)

\* N2 moved the only customer of a route away and the emptied route was dropped
C24_Witness ==
    /\ pc = "returned" /\ op = "N2" /\ WellFormed(solution)
    /\ Len(result) < Len(solution)
    /\ \E i \in 1..Len(solution) : Len(solution[i]) = 3 /\ \A j \in 1..Len(result) :
          Len(result[j]) > 3 \/ result[j][2] # solution[i][2]

(***************************************************************************)
(* Shake_N1_random_relocate pass by pass (SpecShake): one action per pass  *)
(* of "for _ in range(k)", with the route and the customer it picks, the   *)
(* destination it draws and whether it relocated.  result is the local     *)
(* sol, k the strength, iteration the number of passes made, and last the  *)
(* choices of the last pass.                                               *)
(***************************************************************************)
ShakeInit ==
    /\ \E inst \in OpsInstances :
          /\ demands = DemandsOf(inst.demands)
          /\ capacity = inst.capacity
          /\ dist = compute_distance_matrix(inst.coords)
          /\ solution \in AliasSolutions(1..Len(inst.coords) - 1)
    /\ k \in 1..MaxK
    /\ pc = "called" /\ op = "Shake_N1" /\ result = Idle
    /\ routes = Idle /\ unvisited = Idle /\ best = Idle /\ best_cost = 0
    /\ iteration = 0 /\ last_improvement = 0 /\ tabu_skips = 0
    /\ tabu_list = Idle /\ max_iter = 0 /\ use_or_opt = FALSE
    /\ last = [r1_idx |-> 0, r2_idx |-> 0, customer |-> 0, relocated |-> FALSE]
    /\ heap = Idle

ShakeFrame ==
    UNCHANGED <<demands, capacity, dist, heap, op, solution, k, routes, unvisited,
                best, best_cost, last_improvement, tabu_skips, tabu_list, max_iter,
                use_or_opt>>

\* sol = [r[:] for r in solution]
ShakeEnter ==
    /\ pc = "called"
    /\ pc' = "shaking" /\ result' = solution
    /\ UNCHANGED <<iteration, last>>
    /\ ShakeFrame

\* if len(sol) < 2: break / if not valid_routes: break
ShakeBreaks(sol) == Len(sol) < 2 \/ ValidRoutes(sol, 2) = {}

\* one pass of the loop: r1_idx, c_idx and r2_idx are drawn, and when the
\* destination has room the customer is popped and inserted at a drawn pos
ShakePass ==
    /\ pc = "shaking" /\ iteration < k /\ ~ShakeBreaks(result)
    /\ \E r1 \in ValidRoutes(result, 2) :
        \E c \in 1..Len(At(result, r1)) - 2 :
          \E r2 \in Shake_N1_destinations(result, r1) :
            /\ last' = [r1_idx |-> r1, r2_idx |-> r2,
                        customer |-> At(At(result, r1), c),
                        relocated |-> Shake_N1_fits(result, r2, At(At(result, r1), c),
                                                    demands, capacity)]
            /\ IF Shake_N1_fits(result, r2, At(At(result, r1), c), demands, capacity)
               THEN \E pos \in 1..(Len(At(result, r2)) - (IF r2 = r1 THEN 1 ELSE 0)) - 1 :
                       result' = Shake_N1_move(result, r1, c, r2, pos)
               ELSE result' = result
    /\ iteration' = iteration + 1
    /\ UNCHANGED pc
    /\ ShakeFrame

\* sol = [r for r in sol if len(r) > 2]; return sol
ShakeReturn ==
    /\ pc = "shaking" /\ (~(iteration < k) \/ ShakeBreaks(result))
    /\ pc' = "returned" /\ result' = DropEmpty(result)
    /\ UNCHANGED <<iteration, last>>
    /\ ShakeFrame

ShakeNext == ShakeEnter \/ ShakePass \/ ShakeReturn

SpecShake == ShakeInit /\ [][ShakeNext]_vars

ShakeAgreesWithOperator ==
    pc = "returned" => result \in Shake_N1_random_relocate(solution, demands, capacity, k)

\* C25: a relocation of Shake_N1 changes the route of the customer.  In
\* every pass of Shake_N1_random_relocate that pops the picked customer and
\* inserts it, the route it is inserted into is another one than the route
\* it was taken from.
C25_RelocatesToAnotherRoute ==
    (pc = "shaking" /\ last.relocated) => last.r2_idx # last.r1_idx

(***************************************************************************)
(* The fingerprint of best in the tabu list (SpecVNS)                      *)
(***************************************************************************)
\* the sets of customers the routes of a solution serve
PartitionOf(sol) == {{sol[i][p] : p \in 2..Len(sol[i]) - 1} : i \in 1..Len(sol)}

\* C26: best is tabu.  Once a candidate has been accepted in VNS_solver (the
\* tabu list, which only acceptances fill, is not empty), the fingerprint of
\* the current best is in the tabu list; so every later pass whose shaken
\* candidate parts the customers into routes as best does is a tabu skip,
\* which leaves best as it is and runs no VND; and every such pass at k = 3,
\* whose shake is Shake_N3_double_bridge, is a tabu skip.
C26_BestIsTabu ==
    /\ []((InSearch /\ tabu_list # <<>>) => InList(solution_hash(best), tabu_list))
    /\ [][(PassStep /\ tabu_list # <<>> /\ PartitionOf(last'.shaken) = PartitionOf(best))
             => (last'.outcome = "tabu_skip" /\ best' = best
                 /\ tabu_skips' = tabu_skips + 1)]_vars
    /\ [][(PassStep /\ tabu_list # <<>> /\ k = 3)
             => /\ last'.shaken \in Shake_N3_double_bridge(best, demands, capacity, k)
                /\ PartitionOf(last'.shaken) = PartitionOf(best)
                /\ last'.outcome = "tabu_skip"]_vars

C26_Witness ==
    /\ pc = "searching" /\ k = 4 /\ last.outcome = "tabu_skip"
    /\ tabu_list # <<>> /\ last.shaken # best
    /\ PartitionOf(last.shaken) = PartitionOf(best)
    /\ best # VND(solution, demands, capacity, dist, use_or_opt)

(***************************************************************************)
(* The number of routes (SpecVNS)                                          *)
(***************************************************************************)
\* what the operators can return for s: the neighbourhood operators and
\* VND, and the shaking operators at every strength VNS_solver uses
Returned(s, dem, cap, d) ==
    { N1_two_opt_intra(s, d), N2_relocate_inter(s, dem, cap, d),
      N3_swap_inter(s, dem, cap, d), N4_two_opt_inter(s, dem, cap, d),
      N5_merge_routes(s, dem, cap, d), N6_or_opt(s, dem, cap, d),
      VND(s, dem, cap, d, FALSE), VND(s, dem, cap, d, TRUE) }
    \cup UNION { Shake_N1_random_relocate(s, dem, cap, kk)
                 \cup Shake_N2_random_swap(s, dem, cap, kk)
                 \cup Shake_N3_double_bridge(s, dem, cap, kk) : kk \in 1..K_MAX }

\* C27: the search opens no route.  For every solution of the instance, no
\* neighbourhood operator, shaking operator or VND returns more routes than
\* it was given; in VNS_solver each pass shakes best into a candidate of no
\* more routes, VND returns no more routes than the candidate, and best has
\* at every moment of the search at most as many routes as the solution the
\* construction returned.
C27_NoNewRoute ==
    /\ [](pc = "constructing" =>
             \A s \in AllSolutions(Customers(demands)) :
                 \A out \in Returned(s, demands, capacity, dist) : Len(out) <= Len(s))
    /\ [](InSearch => Len(best) <= Len(solution))
    /\ [][PassStep => /\ Len(last'.shaken) <= Len(best)
                      /\ Len(LocalOfPass) <= Len(last'.shaken)
                      /\ Len(best') <= Len(best)]_vars

C27_Witness ==
    /\ pc = "searching" /\ last.outcome = "accepted"
    /\ Len(last.shaken) < Len(solution)
    /\ Len(best) < Len(VND(solution, demands, capacity, dist, use_or_opt))

====
